---- MODULE Spec2Model ----
(***************************************************************************)
(* Balance computation and caching core of the NetSuite backend server     *)
(* (src/backend/server.py): the Ledger Client's admission control, the     *)
(* Parallel Aggregation Orchestrator with its retry policy, and the        *)
(* balance cache shared by the batch endpoints.                            *)
(*                                                                         *)
(* The specifications share the variables:                                 *)
(*   SpecGate   request threads calling query_netsuite and                 *)
(*              run_paginated_suiteql                                      *)
(*   SpecOrch   calculate_cta / calculate_retained_earnings fanning their  *)
(*              component queries out over a ThreadPoolExecutor            *)
(*   Spec       the batch endpoints reading and writing balance_cache      *)
(*   SpecHier   get_subsidiaries_in_hierarchy over the ledger's            *)
(*              Subsidiary table                                           *)
(*   SpecQuery  get_balance and the recompute path of batch_balance        *)
(*              building their queries and merging the ledger's rows       *)
(*   SpecRecon  the refresh endpoints reconstructing cumulative Balance    *)
(*              Sheet balances from monthly activity                       *)
(*   SpecPage   one call of query_netsuite_paginated or                    *)
(*              run_paginated_suiteql, page by page                        *)
(*   SpecPools  two orchestrated requests, each with its own pool          *)
(*   SpecLookup load_lookup_cache, convert_name_to_id and the filters of   *)
(*              the balance cache keys (SpecLookupFair: requests naming a  *)
(*              subsidiary keep being served)                              *)
(*   SpecBfs    the traversal loop of get_subsidiaries_in_hierarchy over   *)
(*              arbitrary parent links                                     *)
(*   SpecAdmitFair  request threads calling query_netsuite under fair      *)
(*              scheduling                                                 *)
(***************************************************************************)
EXTENDS Integers, Sequences, FiniteSets, TLC

\* ------------------------------------------------------------------------
\* Program constants
\* ------------------------------------------------------------------------
NETSUITE_CONCURRENCY_LIMIT == 4
\* MIN_REQUEST_INTERVAL = 0.05 s; the model's ledger clock is in milliseconds
MIN_REQUEST_INTERVAL == 50
\* max_retries of query_with_retry and query_with_retry_re
MaxRetries == 3
\* BALANCE_CACHE_TTL, in seconds
BALANCE_CACHE_TTL == 300

\* ------------------------------------------------------------------------
\* Bounds of the model
\* ------------------------------------------------------------------------
\* request threads of the threaded Flask server that call the ledger
NumThreads == 5
\* one step of the ledger clock (milliseconds)
TickStep == 50
\* the max_pages a caller passes to run_paginated_suiteql
MaxPages == 2
\* component queries of one orchestrated request to which the ledger gives
\* answers other than "200 with a value row"
MaxFaultyQueries == 1
\* request threads that serve the batch endpoints
NumHandlers == 2
\* batch requests served in one behaviour
MaxRequests == 3
\* months of the fiscal year (the code has twelve)
NumMonths == 2
\* one step of datetime.now() and its last reading (seconds)
ClockStep == 400
MaxClock == 400
\* subsidiaries of the ledger
NumSubsidiaries == 3
\* months of the fiscal year in the activity reconstruction
NumPeriods == 3
\* /cta and /retained-earnings requests served at the same time
NumOrchestrated == 2

Threads == 1..NumThreads
Handlers == 1..NumHandlers

NoThread == 0
\* `parent` of a root subsidiary (NULL)
NoParent == 0
NoTime == -1
\* a key that is not in a dict
Missing == -1

VARIABLES
    \* --- Ledger Client -------------------------------------------------
    netsuite_semaphore,          \* free permits of threading.Semaphore
    netsuite_request_lock,       \* NoThread, or the thread holding the Lock
    elapsed,                     \* time.time() - last_netsuite_request_time (ms),
                                 \* kept up to MIN_REQUEST_INTERVAL
    tpc,                         \* tpc[t]: position of thread t
    caller,                      \* caller[t]: who called the ledger primitive
    result,                      \* result[t]: `result` of query_with_retry
    page_num,                    \* page_num[t] of run_paginated_suiteql
    \* --- history of outbound HTTP posts -------------------------------
    since_dispatch,              \* ms since the latest requests.post, kept up
                                 \* to MIN_REQUEST_INTERVAL; NoTime before it
    exits,                       \* outcomes on which a handler's query_netsuite returned
    faulty,                      \* orchestrated queries given a non-nominal answer
    \* --- Parallel Aggregation Orchestrator ------------------------------
    endpoint,                    \* "cta", "re", or "none" before the request
    orch_pc,                     \* position of the request's main thread
    pending,                     \* submitted queries no worker has taken yet
    task,                        \* task[t]: the name worker t is querying
    attempt,                     \* attempt[t]: loop variable of query_with_retry
    waited,                      \* waited[t]: the wait_time of each backoff sleep
    posts,                       \* posts[t]: times the task's query was sent
    results,                     \* results[name], Missing until assigned
    query_errors,                \* the (name, message) pairs of query_errors
    future_result,               \* future_result[name]: what future.result() gave
    response,                    \* the JSON answer of the request
    \* --- balance cache ---------------------------------------------------
    balance_cache,               \* balance_cache[key], Missing when absent
    balance_cache_timestamp,     \* NoTime for None
    datetime_now,                \* reading of datetime.now() (seconds)
    written_at,                  \* written_at[key]: when the entry was stored
    hpc,                         \* hpc[h]: position of batch handler thread h
    hreq,                        \* hreq[h]: the request the thread serves
    to_write,                    \* to_write[h]: entries its write loop still stores
    month_index,                 \* month_index[h]: month of the per-month loop
    reply,                       \* the JSON answer sent last
    logged,                      \* the ledger queries that failed while that
                                 \* request was served (printed, not returned)
    requests,                    \* batch requests that have arrived
    \* --- Hierarchy Resolver ----------------------------------------------
    subsidiary_rows,             \* the ledger's Subsidiary table
    subsidiary_hierarchy_cache,  \* subsidiary_hierarchy_cache[target_id]
    hierarchy_call,              \* the latest get_subsidiaries_in_hierarchy call
    sub_filter,                  \* the ids of the caller's `tl.subsidiary IN (...)`
    \* --- Balance Query Builder -------------------------------------------
    qpc,                         \* position of the request thread
    qreq,                        \* the request it serves
    is_bs_account,               \* is_bs_account of get_balance
    period_info,                 \* period_info[period] of batch_balance
    pl_accounts,                 \* pl_accounts of batch_balance
    bs_accounts,                 \* bs_accounts of batch_balance
    all_balances,                \* all_balances[account_num][period]
    sent,                        \* the queries sent for the request, with the
                                 \* period each was built for and its result
    qresp,                       \* the answer of the request
    \* --- activity reconstruction ------------------------------------------
    recon,                       \* the latest reconstruction of the cumulative
                                 \* balances of a Balance Sheet account
    \* --- multi-page fetch ---------------------------------------------------
    pager,                       \* the locals of the paginated fetch in progress
    \* --- concurrent orchestrated requests ---------------------------------
    pools,                       \* pools[r]: the ThreadPoolExecutor of request r
    rate_limited,                \* answers that were rate-limit errors so far
    \* --- name lookup and the filters of the balance cache -----------------
    cache_loaded,                \* cache_loaded of load_lookup_cache
    lookup_cache,                \* lookup_cache['subsidiaries']: name -> id
    lookup_call,                 \* the latest convert_name_to_id call
    computed_under,              \* computed_under[key]: the accounting book and
                                 \* consolidation mode of the refresh that
                                 \* stored balance_cache[key]
    batch_request,               \* the latest batch_balance request and how
                                 \* the cache answered it
    \* --- the traversal loop of the Hierarchy Resolver ----------------------
    bfs                          \* the locals of the get_subsidiaries_in_hierarchy
                                 \* call in progress

gateVars == <<netsuite_semaphore, netsuite_request_lock, elapsed, tpc, caller,
              result, page_num, since_dispatch, exits, faulty>>

\* the worker-local part and the main-thread part of the orchestrator
workerVars == <<task, attempt, waited, posts>>
mainVars == <<endpoint, orch_pc, pending, results, query_errors,
              future_result, response>>
orchVars == <<workerVars, mainVars>>

cacheVars == <<balance_cache, balance_cache_timestamp, datetime_now,
               written_at, hpc, hreq, to_write, month_index, reply, logged,
               requests>>

hierVars == <<subsidiary_rows, subsidiary_hierarchy_cache, hierarchy_call,
              sub_filter>>

\* the Hierarchy Resolver and the Balance Query Builder
queryVars == <<qpc, qreq, is_bs_account, period_info, pl_accounts, bs_accounts,
               all_balances, sent, qresp>>

reconVars == <<recon>>
pageVars == <<pager>>
poolVars == <<pools, rate_limited>>
lookupVars == <<cache_loaded, lookup_cache, lookup_call, computed_under,
                batch_request>>

bfsVars == <<bfs>>

\* the parts of the server outside the Resolver and the Query Builder
supportVars == <<reconVars, pageVars, poolVars, lookupVars, bfsVars>>

\* what the actions of one of these parts leave alone
besidesRecon == <<pageVars, poolVars, lookupVars, bfsVars>>
besidesPage == <<reconVars, poolVars, lookupVars, bfsVars>>
besidesPool == <<reconVars, pageVars, lookupVars, bfsVars>>
besidesLookup == <<reconVars, pageVars, poolVars, bfsVars>>
besidesBfs == <<reconVars, pageVars, poolVars, lookupVars>>

builderVars == <<hierVars, queryVars, supportVars>>

vars == <<gateVars, orchVars, cacheVars, builderVars>>

\* ------------------------------------------------------------------------
\* What the ledger can answer to one HTTP post
\* ------------------------------------------------------------------------
\* status 200 with rows; a non-200 status whose body names the rate limit;
\* any other non-200 status; requests.post raising (timeout, connection)
HttpOutcomes == {"ok", "rate_limited", "failed", "exception"}

\* the items of a 200 answer: a row with a number, no row, a row whose
\* value is not a number
Bodies == {"value", "empty", "malformed"}

\* an outcome with the items it carries
Answers ==
    {<<o, b>> : o \in {"ok"}, b \in Bodies}
        \cup {<<o, "none">> : o \in HttpOutcomes \ {"ok"}}

Nominal(answer) == answer = <<"ok", "value">>

NoResult == [kind |-> "none", error |-> "", details |-> "absent", rows |-> "none"]

\* query_netsuite's return value: response.json().get('items', []) on 200,
\* {'error': error_msg, 'details': response.text} on another status,
\* {'error': str(e)} on an exception
QueryResult(outcome, body) ==
    CASE outcome = "ok" ->
           [kind |-> "rows", error |-> "", details |-> "absent", rows |-> body]
      [] outcome = "rate_limited" ->
           [kind |-> "error", error |-> "NetSuite error: 429",
            details |-> "CONCURRENCY_LIMIT_EXCEEDED", rows |-> "none"]
      [] outcome = "failed" ->
           [kind |-> "error", error |-> "NetSuite error: 400",
            details |-> "invalid search", rows |-> "none"]
      [] outcome = "exception" ->
           [kind |-> "error", error |-> "timeout", details |-> "absent",
            rows |-> "none"]

\* requests.post calls that have been sent and have not returned
InFlight == Cardinality({t \in Threads : tpc[t] \in {"qn_wait", "pg_wait"}})

\* the clock readings matter to the code only up to MIN_REQUEST_INTERVAL
Saturate(ms) == IF ms > MIN_REQUEST_INTERVAL THEN MIN_REQUEST_INTERVAL ELSE ms

RecordDispatch == since_dispatch' = 0

\* the posts made for the task an orchestrator worker is running
CountPost(t) ==
    posts' = IF caller[t] = "retry" THEN [posts EXCEPT ![t] = @ + 1] ELSE posts

\* ------------------------------------------------------------------------
\* Parallel Aggregation Orchestrator: the component queries, the retry
\* loop and the body of the as_completed loop
\* ------------------------------------------------------------------------
Endpoints == {"cta", "re"}

\* the keys of `queries` in calculate_cta, in insertion order, and the two
\* futures of calculate_retained_earnings
QueryNames(ep) ==
    IF ep = "cta"
    THEN <<"total_assets", "total_liabilities", "posted_equity", "prior_pl",
           "posted_re", "net_income">>
    ELSE <<"prior_pl", "posted_re">>

AllQueryNames == {QueryNames("cta")[i] : i \in 1..Len(QueryNames("cta"))}

NameSet(ep) == {QueryNames(ep)[i] : i \in 1..Len(QueryNames(ep))}

\* ThreadPoolExecutor(max_workers=...)
MaxWorkers(ep) == IF ep = "cta" THEN 3 ELSE 2

Workers(ep) == 1..MaxWorkers(ep)

\* the `value` column the ledger holds for each component query
LedgerValue(name) ==
    CASE name = "total_assets"      -> 100
      [] name = "total_liabilities" -> 40
      [] name = "posted_equity"     -> 30
      [] name = "prior_pl"          -> 10
      [] name = "posted_re"         -> 5
      [] name = "net_income"        -> 7

\* results = {} in calculate_cta; prior_pl = 0.0 and posted_re = 0.0 in
\* calculate_retained_earnings
InitialResults(ep) ==
    [n \in AllQueryNames |-> IF ep = "re" /\ n \in NameSet("re") THEN 0 ELSE Missing]

\* `'CONCURRENCY_LIMIT_EXCEEDED' in error_str or '429' in error_str`, with
\* error_str = str(result.get('details', ''))
IsRateLimitSignal(r) ==
    /\ r.kind = "error"
    /\ r.details = "CONCURRENCY_LIMIT_EXCEEDED"

\* a backoff that does not grow
WaitTime_Constant(a) == 2

\* wait_time = (attempt + 1) * 2
WaitTime(a) == (a + 1) * 2

\* error_msg = result.get('details', result.get('error', 'Unknown error'))
ErrorMsg(r) == IF r.details /= "absent" THEN r.details ELSE r.error

\* the value the loop body computes from a future's result
ParsedValue(name, r) ==
    IF r.kind = "rows" /\ r.rows = "value" THEN LedgerValue(name) ELSE 0

\* a loop body that stores nothing for a query that returned an error
ResultsAfter_NoEntryOnError(res, ep, name, r) ==
    IF r.kind = "error" \/ (r.kind = "rows" /\ r.rows = "malformed")
    THEN res
    ELSE [res EXCEPT ![name] = ParsedValue(name, r)]

\* results[name] after the loop body; float(raw_value) raising lands in the
\* except branch, which stores 0.0 in calculate_cta and stores nothing in
\* calculate_retained_earnings
ResultsAfter(res, ep, name, r) ==
    IF r.kind = "rows" /\ r.rows = "malformed"
    THEN IF ep = "cta" THEN [res EXCEPT ![name] = 0] ELSE res
    ELSE [res EXCEPT ![name] = ParsedValue(name, r)]

\* query_errors after the loop body
ErrorsAfter(errs, name, r) ==
    CASE r.kind = "error" -> errs \cup {<<name, ErrorMsg(r)>>}
      [] r.kind = "rows" /\ r.rows = "malformed" -> errs \cup {<<name, "ValueError">>}
      [] OTHER -> errs

\* query_with_retry returns r: the future of worker t is done, the worker is
\* free again, and `for future in as_completed(futures):` runs its body for
\* this future (the main thread handles the futures one by one in the order
\* in which they complete, and nothing else reads what the body writes)
FutureDone(t, r) ==
    /\ future_result' = [future_result EXCEPT ![task[t]] = r]
    /\ results' = ResultsAfter(results, endpoint, task[t], r)
    /\ query_errors' = ErrorsAfter(query_errors, task[t], r)
    /\ tpc' = [tpc EXCEPT ![t] = "idle"]
    /\ task' = [task EXCEPT ![t] = "none"]
    /\ result' = [result EXCEPT ![t] = NoResult]
    /\ attempt' = [attempt EXCEPT ![t] = 0]
    /\ waited' = [waited EXCEPT ![t] = <<>>]
    /\ posts' = [posts EXCEPT ![t] = 0]

\* query_netsuite has returned r into query_with_retry: a rate-limit error
\* starts the backoff sleep of wait_time seconds, anything else is returned
Retry_Result(t, r) ==
    IF IsRateLimitSignal(r)
    THEN /\ waited' = [waited EXCEPT ![t] = Append(@, WaitTime(attempt[t]))]
         /\ result' = [result EXCEPT ![t] = r]
         /\ tpc' = [tpc EXCEPT ![t] = "rt_sleep"]
         /\ UNCHANGED <<results, query_errors, future_result, task, attempt,
                        posts>>
    ELSE FutureDone(t, r)

\* time.sleep(wait_time) returns and `continue` takes the next attempt; when
\* range(max_retries) is exhausted the last result is returned
Retry_Wake(t) ==
    /\ tpc[t] = "rt_sleep"
    /\ IF attempt[t] + 1 < MaxRetries
       THEN /\ attempt' = [attempt EXCEPT ![t] = @ + 1]
            /\ tpc' = [tpc EXCEPT ![t] = "qn_enter"]
            /\ UNCHANGED <<results, query_errors, future_result, task,
                           result, waited, posts>>
       ELSE FutureDone(t, result[t])
    /\ UNCHANGED <<netsuite_semaphore, netsuite_request_lock, elapsed, caller,
                   page_num, since_dispatch, exits, faulty>>
    /\ UNCHANGED <<endpoint, orch_pc, pending, response, cacheVars, builderVars>>

\* ------------------------------------------------------------------------
\* query_netsuite
\* ------------------------------------------------------------------------
\* `with netsuite_semaphore:` on entry
QN_AcquireSemaphore(t) ==
    /\ tpc[t] = "qn_enter"
    /\ netsuite_semaphore > 0
    /\ netsuite_semaphore' = netsuite_semaphore - 1
    /\ tpc' = [tpc EXCEPT ![t] = "qn_lock"]
    /\ UNCHANGED <<netsuite_request_lock, elapsed, caller, result, page_num,
                   since_dispatch, exits, faulty>>
    /\ UNCHANGED <<orchVars, cacheVars, builderVars>>

\* a Lock that stays taken when the block is left
LockReleased_StillTaken == NumThreads

\* the Lock once the `with netsuite_request_lock:` block is left
LockReleased == NoThread

\* `with netsuite_request_lock:` -- when the interval has elapsed the stamp
\* last_netsuite_request_time = time.time() is taken, the block is left and
\* requests.post is sent; otherwise the thread keeps the lock and sleeps
QN_Pace(t) ==
    /\ tpc[t] = "qn_lock"
    /\ netsuite_request_lock = NoThread
    /\ IF elapsed < MIN_REQUEST_INTERVAL
       THEN /\ netsuite_request_lock' = t
            /\ tpc' = [tpc EXCEPT ![t] = "qn_sleep"]
            /\ UNCHANGED <<elapsed, since_dispatch, posts>>
       ELSE /\ elapsed' = 0
            /\ netsuite_request_lock' = LockReleased
            /\ tpc' = [tpc EXCEPT ![t] = "qn_wait"]
            /\ CountPost(t)
            /\ RecordDispatch
    /\ UNCHANGED <<netsuite_semaphore, caller, result, page_num, exits, faulty>>
    /\ UNCHANGED <<task, attempt, waited, mainVars, cacheVars, builderVars>>

\* time.sleep(MIN_REQUEST_INTERVAL - elapsed) returns, the stamp is taken,
\* the lock block is left and requests.post is sent
QN_Wake(t) ==
    /\ tpc[t] = "qn_sleep"
    /\ elapsed >= MIN_REQUEST_INTERVAL
    /\ elapsed' = 0
    /\ netsuite_request_lock' = LockReleased
    /\ tpc' = [tpc EXCEPT ![t] = "qn_wait"]
    /\ CountPost(t)
    /\ RecordDispatch
    /\ UNCHANGED <<netsuite_semaphore, caller, result, page_num, exits, faulty>>
    /\ UNCHANGED <<task, attempt, waited, mainVars, cacheVars, builderVars>>

\* a release that is skipped when requests.post raises
SemaphoreAfterExit_NoReleaseOnException(sem, outcome) ==
    IF outcome = "exception" THEN sem ELSE sem + 1

\* permits after leaving the `with netsuite_semaphore:` block on an outcome
SemaphoreAfterExit(sem, outcome) == sem + 1

\* where the caller of a ledger primitive continues with the value returned:
\* a plain request handler answers its request; query_with_retry inspects it
ReturnTo(t, value) ==
    IF caller[t] = "handler"
    THEN /\ tpc' = [tpc EXCEPT ![t] = "done"]
         /\ UNCHANGED <<result, task, attempt, waited, posts, results,
                        query_errors, future_result>>
    ELSE Retry_Result(t, value)

\* the post returns (or raises); every branch leaves the semaphore block
QN_Response(t) ==
    /\ tpc[t] = "qn_wait"
    /\ \E answer \in Answers :
        /\ \/ Nominal(answer)
           \/ caller[t] = "handler"
           \/ task[t] \in faulty
           \/ Cardinality(faulty) < MaxFaultyQueries
        /\ faulty' = IF caller[t] = "handler" \/ Nominal(answer)
                     THEN faulty ELSE faulty \cup {task[t]}
        /\ ReturnTo(t, QueryResult(answer[1], answer[2]))
        /\ netsuite_semaphore' = SemaphoreAfterExit(netsuite_semaphore, answer[1])
        /\ exits' = IF caller[t] = "handler" THEN exits \cup {answer[1]} ELSE exits
    /\ UNCHANGED <<netsuite_request_lock, elapsed, caller, page_num, since_dispatch>>
    /\ UNCHANGED <<endpoint, orch_pc, pending, response, cacheVars, builderVars>>

\* ------------------------------------------------------------------------
\* run_paginated_suiteql
\* ------------------------------------------------------------------------
\* the first pass of `while page_num < max_pages:` -- page_num += 1 and
\* requests.post(...), with neither the semaphore nor the lock
PG_FirstPage(t) ==
    /\ page_num' = [page_num EXCEPT ![t] = 1]
    /\ tpc' = [tpc EXCEPT ![t] = "pg_wait"]
    /\ RecordDispatch

\* the page returns: a non-200 status raises; a short page ends the loop; a
\* full page asks for the next one unless max_pages is reached
PG_Response(t) ==
    /\ tpc[t] = "pg_wait"
    /\ \/ /\ ReturnTo(t, [NoResult EXCEPT !.kind = "raised"])
          /\ page_num' = [page_num EXCEPT ![t] = 0]
          /\ UNCHANGED since_dispatch
       \/ /\ ReturnTo(t, [NoResult EXCEPT !.kind = "rows"])
          /\ page_num' = [page_num EXCEPT ![t] = 0]
          /\ UNCHANGED since_dispatch
       \/ /\ page_num[t] < MaxPages
          /\ page_num' = [page_num EXCEPT ![t] = @ + 1]
          /\ RecordDispatch
          /\ UNCHANGED <<tpc, result, task, attempt, waited, posts, results,
                         query_errors, future_result>>
       \/ /\ page_num[t] >= MaxPages
          /\ ReturnTo(t, [NoResult EXCEPT !.kind = "rows"])
          /\ page_num' = [page_num EXCEPT ![t] = 0]
          /\ UNCHANGED since_dispatch
    /\ UNCHANGED <<netsuite_semaphore, netsuite_request_lock, elapsed, caller,
                   exits, faulty>>
    /\ UNCHANGED <<endpoint, orch_pc, pending, response, cacheVars, builderVars>>

\* ------------------------------------------------------------------------
\* The ledger clock
\* ------------------------------------------------------------------------
\* time passes; once both readings are past MIN_REQUEST_INTERVAL more time
\* changes nothing the code can tell
Tick ==
    /\ \/ elapsed < MIN_REQUEST_INTERVAL
       \/ since_dispatch \notin {NoTime, MIN_REQUEST_INTERVAL}
    /\ elapsed' = Saturate(elapsed + TickStep)
    /\ since_dispatch' = IF since_dispatch = NoTime THEN NoTime
                         ELSE Saturate(since_dispatch + TickStep)
    /\ UNCHANGED <<netsuite_semaphore, netsuite_request_lock, tpc, caller, result,
                   page_num, exits, faulty>>
    /\ UNCHANGED <<orchVars, cacheVars, builderVars>>

\* ------------------------------------------------------------------------
\* SpecGate: every request thread serves one request that needs one ledger
\* call, either through query_netsuite or through run_paginated_suiteql
\* ------------------------------------------------------------------------
\* threads are numbered in the order in which their requests arrive
Arrived(t) == IF t = 1 THEN TRUE ELSE tpc[t - 1] /= "idle"

\* a request handler calls query_netsuite (e.g. the account-type query of
\* batch_balance)
CallQueryNetsuite(t) ==
    /\ tpc[t] = "idle"
    /\ Arrived(t)
    /\ tpc' = [tpc EXCEPT ![t] = "qn_enter"]
    /\ caller' = [caller EXCEPT ![t] = "handler"]
    /\ UNCHANGED <<netsuite_semaphore, netsuite_request_lock, elapsed, result,
                   page_num, since_dispatch, exits, faulty>>
    /\ UNCHANGED <<orchVars, cacheVars, builderVars>>

\* a request handler calls run_paginated_suiteql (e.g. batch_bs_periods)
CallRunPaginated(t) ==
    /\ tpc[t] = "idle"
    /\ Arrived(t)
    /\ PG_FirstPage(t)
    /\ caller' = [caller EXCEPT ![t] = "handler"]
    /\ UNCHANGED <<netsuite_semaphore, netsuite_request_lock, elapsed, result,
                   exits, faulty>>
    /\ UNCHANGED <<orchVars, cacheVars, builderVars>>

\* ------------------------------------------------------------------------
\* calculate_cta and calculate_retained_earnings: the main thread and the
\* pool
\* ------------------------------------------------------------------------
NoResponse == [status |-> 0]

\* the request arrives: the queries are built and submitted to the pool
Orch_Submit ==
    /\ orch_pc = "none"
    /\ \E ep \in Endpoints :
        /\ endpoint' = ep
        /\ pending' = QueryNames(ep)
        /\ results' = InitialResults(ep)
    /\ orch_pc' = "collecting"
    /\ query_errors' = {}
    /\ UNCHANGED <<future_result, response, workerVars, gateVars, cacheVars, builderVars>>

\* idle pool threads are interchangeable: the lowest-numbered one takes the
\* next work item
FirstIdleWorker(t) ==
    /\ t \in Workers(endpoint)
    /\ tpc[t] = "idle"
    /\ \A u \in Workers(endpoint) : u < t => tpc[u] /= "idle"

\* a pool thread takes the next work item and enters query_with_retry:
\* `for attempt in range(max_retries): result = query_netsuite(sql, 120)`
Worker_Take(t) ==
    /\ orch_pc = "collecting"
    /\ FirstIdleWorker(t)
    /\ pending /= <<>>
    /\ task' = [task EXCEPT ![t] = Head(pending)]
    /\ pending' = Tail(pending)
    /\ attempt' = [attempt EXCEPT ![t] = 0]
    /\ waited' = [waited EXCEPT ![t] = <<>>]
    /\ posts' = [posts EXCEPT ![t] = 0]
    /\ tpc' = [tpc EXCEPT ![t] = "qn_enter"]
    /\ caller' = [caller EXCEPT ![t] = "retry"]
    /\ UNCHANGED <<netsuite_semaphore, netsuite_request_lock, elapsed, result,
                   page_num, since_dispatch, exits, faulty>>
    /\ UNCHANGED <<endpoint, orch_pc, results, query_errors, future_result,
                   response, cacheVars, builderVars>>

\* the `with ThreadPoolExecutor` block and the as_completed loop are left
AllCollected ==
    /\ pending = <<>>
    /\ \A t \in Threads : task[t] = "none"

\* results.get(name, 0.0)
Get(res, name) == IF res[name] = Missing THEN 0 ELSE res[name]

\* a plug that leaves Net Income out
CtaResponse_NetIncomeNotSubtracted(res) ==
    LET total_assets == Get(res, "total_assets")
        total_liabilities == Get(res, "total_liabilities")
        posted_equity == Get(res, "posted_equity")
        prior_pl == Get(res, "prior_pl")
        posted_re == Get(res, "posted_re")
        net_income == Get(res, "net_income")
        total_equity == total_assets - total_liabilities
        retained_earnings == prior_pl + posted_re
        cta == total_equity - posted_equity - retained_earnings
    IN [status |-> 200,
        value |-> cta,
        components |-> [total_assets |-> total_assets,
                        total_liabilities |-> total_liabilities,
                        total_equity |-> total_equity,
                        posted_equity |-> posted_equity,
                        retained_earnings |-> retained_earnings,
                        net_income |-> net_income]]

\* the JSON body of calculate_cta
CtaResponse(res) ==
    LET total_assets == Get(res, "total_assets")
        total_liabilities == Get(res, "total_liabilities")
        posted_equity == Get(res, "posted_equity")
        prior_pl == Get(res, "prior_pl")
        posted_re == Get(res, "posted_re")
        net_income == Get(res, "net_income")
        total_equity == total_assets - total_liabilities
        retained_earnings == prior_pl + posted_re
        cta == total_equity - posted_equity - retained_earnings - net_income
    IN [status |-> 200,
        value |-> cta,
        components |-> [total_assets |-> total_assets,
                        total_liabilities |-> total_liabilities,
                        total_equity |-> total_equity,
                        posted_equity |-> posted_equity,
                        retained_earnings |-> retained_earnings,
                        net_income |-> net_income]]

\* the JSON body of calculate_retained_earnings
ReResponse(res) ==
    [status |-> 200,
     value |-> res["prior_pl"] + res["posted_re"],
     components |-> [prior_years_pl |-> res["prior_pl"],
                     posted_re_adjustments |-> res["posted_re"]]]

\* the pool is drained and the request is answered
Orch_Respond ==
    /\ orch_pc = "collecting"
    /\ AllCollected
    /\ response' = IF endpoint = "cta" THEN CtaResponse(results)
                                       ELSE ReResponse(results)
    /\ orch_pc' = "responded"
    /\ UNCHANGED <<endpoint, pending, results, query_errors, future_result,
                   workerVars, gateVars, cacheVars, builderVars>>

\* ------------------------------------------------------------------------
\* Balance cache: keys and the ledger's data
\* ------------------------------------------------------------------------
\* one P&L account (Income) and one Balance Sheet account (Bank)
PLAccounts == {"4000"}
BSAccounts == {"1000"}
Accounts == PLAccounts \cup BSAccounts

\* the rows of the P&L and of the Balance Sheet queries, in row order
PLRows == <<"4000">>
BSRows == <<"1000">>

\* periods of the fiscal year, in month order
Months == 1..NumMonths

\* the subsidiary filter of a request: none, or subsidiary 2
Subsidiaries == {"", "2"}

\* the refresh requests are sent without a subsidiary filter
RefreshSubsidiaries == {""}

\* filters_hash = f"{subsidiary}:{department}:{location}:{class_id}", for
\* requests that filter on the subsidiary only
FiltersHash(subsidiary) == <<subsidiary, "", "", "">>

\* cache_key = f"{account}:{period}:{filters_hash}"
CacheKey(account, period, filters_hash) == <<account, period, filters_hash>>

AllKeys ==
    {CacheKey(a, p, FiltersHash(s)) : a \in Accounts, p \in Months, s \in Subsidiaries}

\* posted activity of an account in a period: the Income account has
\* transactions in the first month only, the Bank account in every month
Activity(account, period, subsidiary) ==
    LET share == IF subsidiary = "" THEN 2 ELSE 1
    IN IF account \in PLAccounts
       THEN IF period = 1 THEN 10 * share ELSE 0
       ELSE 5 * share

\* ending balance of the year before
PriorBalance(account, subsidiary) ==
    IF account \in BSAccounts
    THEN IF subsidiary = "" THEN 40 ELSE 20
    ELSE 0

RECURSIVE Cumulative(_, _, _)
\* cumulative = prior balance, then `cumulative += activity` month by month
Cumulative(account, period, subsidiary) ==
    IF period = 0
    THEN PriorBalance(account, subsidiary)
    ELSE Cumulative(account, period - 1, subsidiary)
             + Activity(account, period, subsidiary)

\* what the ledger reports for an account and a period: the period's
\* activity for P&L accounts, the cumulative balance for Balance Sheet ones
LedgerBalance(account, period, subsidiary) ==
    IF account \in PLAccounts
    THEN Activity(account, period, subsidiary)
    ELSE Cumulative(account, period, subsidiary)

\* the (cache_key, amount) pairs a write loop stores, in loop order: for
\* each row's account, for each of the periods 1..n
Entries(rows, n, subsidiary, amount) ==
    [i \in 1..(Len(rows) * n) |->
        LET account == rows[((i - 1) \div n) + 1]
            period == ((i - 1) % n) + 1
        IN <<CacheKey(account, period, FiltersHash(subsidiary)),
             amount[account, period]>>]

\* the monthly amounts and the cumulative balances the ledger's rows carry
ActivityOf(subsidiary) ==
    [a \in Accounts, p \in Months |-> Activity(a, p, subsidiary)]

CumulativeOf(subsidiary) ==
    [a \in Accounts, p \in Months |-> Cumulative(a, p, subsidiary)]

\* balance_cache = {}
EmptyCache == [k \in AllKeys |-> Missing]

NoRequest ==
    [op |-> "none", accounts |-> {}, periods |-> {}, subsidiary |-> "",
     at |-> NoTime, failed |-> {}]

NoReply == [status |-> 0, from_cache |-> FALSE, balances |-> <<>>]

\* jsonify({...}) of a refresh endpoint, and jsonify({'error': ...}), 500
RefreshReply == [status |-> 200, from_cache |-> FALSE, balances |-> <<>>]
ErrorReply == [status |-> 500, from_cache |-> FALSE, balances |-> <<>>]

\* the cache keys of a batch_balance request
RequestKeys(req) ==
    {CacheKey(a, p, FiltersHash(req.subsidiary)) :
        a \in req.accounts, p \in req.periods}

\* ------------------------------------------------------------------------
\* The batch endpoints
\* ------------------------------------------------------------------------
\* handler threads are interchangeable: a request that arrives is served by
\* the lowest-numbered idle one
Accept(h) ==
    /\ hpc[h] = "idle"
    /\ \A g \in Handlers : g < h => hpc[g] /= "idle"
    /\ requests < MaxRequests
    /\ requests' = requests + 1

\* `failed` collects the queries of the request whose failure was caught
\* and printed so far
Request(op, accounts, periods, subsidiary) ==
    [op |-> op, accounts |-> accounts, periods |-> periods,
     subsidiary |-> subsidiary, at |-> datetime_now, failed |-> {}]

\* return jsonify(...): the request of handler h is answered after the
\* queries in `failures` failed
AnswerAfter(h, body, failures) ==
    /\ reply' = body
    /\ logged' = failures
    /\ hpc' = [hpc EXCEPT ![h] = "idle"]
    /\ hreq' = [hreq EXCEPT ![h] = NoRequest]

\* return jsonify(...) with nothing failing in the step that answers
Answer(h, body) == AnswerAfter(h, body, hreq[h].failed)

\* balance_cache[cache_key] = amount for the next entry of the write loop
StoreNext(h) ==
    LET entry == Head(to_write[h])
    IN /\ balance_cache' = [balance_cache EXCEPT ![entry[1]] = entry[2]]
       /\ written_at' = [written_at EXCEPT ![entry[1]] = datetime_now]
       /\ to_write' = [to_write EXCEPT ![h] = Tail(@)]

\* `if balance_cache and balance_cache_timestamp:` and
\* `cache_age < BALANCE_CACHE_TTL`
CacheUsable ==
    /\ \E k \in AllKeys : balance_cache[k] /= Missing
    /\ balance_cache_timestamp /= NoTime
    /\ datetime_now - balance_cache_timestamp < BALANCE_CACHE_TTL

\* a check that is content with one requested key being cached
AllInCache_AnyKey(cache, accounts, periods, filters_hash) ==
    \E a \in accounts, p \in periods :
        cache[CacheKey(a, p, filters_hash)] /= Missing

\* all_in_cache after the loop over accounts and periods
AllInCache(cache, accounts, periods, filters_hash) ==
    \A a \in accounts, p \in periods :
        cache[CacheKey(a, p, filters_hash)] /= Missing

\* batch_balance: the request arrives and the cache is checked
BB_Check(h) ==
    /\ Accept(h)
    /\ \E accounts \in SUBSET Accounts \ {{}}, periods \in SUBSET Months \ {{}},
          subsidiary \in Subsidiaries :
        /\ hreq' = [hreq EXCEPT ![h] =
                       Request("batch_balance", accounts, periods, subsidiary)]
        /\ hpc' = [hpc EXCEPT ![h] =
                      IF /\ CacheUsable
                         /\ AllInCache(balance_cache, accounts, periods,
                                       FiltersHash(subsidiary))
                      THEN "bb_hit" ELSE "bb_recompute"]
    /\ UNCHANGED <<balance_cache, balance_cache_timestamp, datetime_now,
                   written_at, to_write, month_index, reply, logged>>
    /\ UNCHANGED <<gateVars, orchVars, builderVars>>

\* batch_balance: "Serve entirely from cache" --
\* result_balances[account][period] = balance_cache.get(cache_key, 0)
BB_Serve(h) ==
    /\ hpc[h] = "bb_hit"
    /\ Answer(h, [status |-> 200, from_cache |-> TRUE,
                  balances |-> [k \in RequestKeys(hreq[h]) |->
                                   Get(balance_cache, k)]])
    /\ UNCHANGED <<balance_cache, balance_cache_timestamp, datetime_now,
                   written_at, to_write, month_index, requests>>
    /\ UNCHANGED <<gateVars, orchVars, builderVars>>

\* the query that computes an account: the P&L query or the per-period
\* Balance Sheet queries
QueryOf(account) == IF account \in PLAccounts THEN "pl" ELSE "bs"

\* batch_balance: the P&L query and the Balance Sheet queries run for the
\* requested accounts of each kind; one that fails is printed to stderr and
\* "Fill in zeros for missing account/period combinations" gives its
\* accounts 0
BB_Recompute(h) ==
    /\ hpc[h] = "bb_recompute"
    /\ \E failures \in SUBSET {QueryOf(a) : a \in hreq[h].accounts} :
        AnswerAfter(h, [status |-> 200, from_cache |-> FALSE,
                        balances |-> [k \in RequestKeys(hreq[h]) |->
                                         IF QueryOf(k[1]) \in failures
                                         THEN 0
                                         ELSE LedgerBalance(k[1], k[2],
                                                            hreq[h].subsidiary)]],
                    failures)
    /\ UNCHANGED <<balance_cache, balance_cache_timestamp, datetime_now,
                   written_at, to_write, month_index, requests>>
    /\ UNCHANGED <<gateVars, orchVars, builderVars>>

\* batch_full_year_refresh: the pivoted P&L query; when it raises the
\* request ends with 500, otherwise balance_cache = {} and
\* balance_cache_timestamp = datetime.now() and the write loop begins
FY_Start(h) ==
    /\ Accept(h)
    /\ \E subsidiary \in RefreshSubsidiaries, outcome \in {"ok", "raised"} :
        IF outcome = "raised"
        THEN /\ reply' = ErrorReply
             /\ logged' = {"pl"}
             /\ UNCHANGED <<balance_cache, balance_cache_timestamp,
                            written_at, hpc, hreq, to_write>>
        ELSE /\ hreq' = [hreq EXCEPT ![h] =
                  Request("full_year_refresh", {}, Months, subsidiary)]
             /\ balance_cache' = EmptyCache
             /\ balance_cache_timestamp' = datetime_now
             /\ written_at' = [k \in AllKeys |-> NoTime]
             /\ to_write' = [to_write EXCEPT ![h] =
                                Entries(PLRows, NumMonths, subsidiary, ActivityOf(subsidiary))]
             /\ hpc' = [hpc EXCEPT ![h] = "fy_pl"]
             /\ UNCHANGED <<reply, logged>>
    /\ UNCHANGED <<datetime_now, month_index>>
    /\ UNCHANGED <<gateVars, orchVars, builderVars>>

\* batch_full_year_refresh: one pass of the P&L write loop
FY_WritePL(h) ==
    /\ hpc[h] = "fy_pl"
    /\ StoreNext(h)
    /\ hpc' = [hpc EXCEPT ![h] =
                  IF Tail(to_write[h]) = <<>> THEN "fy_bs" ELSE "fy_pl"]
    /\ UNCHANGED <<balance_cache_timestamp, datetime_now, hreq, month_index,
                   reply, logged, requests>>
    /\ UNCHANGED <<gateVars, orchVars, builderVars>>

\* batch_full_year_refresh: with skip_bs the request is answered; otherwise
\* the Balance Sheet activity query runs, and when it raises the error is
\* caught ("P&L still succeeded") and the request is answered
FY_BS(h) ==
    /\ hpc[h] = "fy_bs"
    /\ \E branch \in {"skip_bs", "raised", "ok"} :
        IF branch = "ok"
        THEN /\ to_write' = [to_write EXCEPT ![h] =
                  Entries(BSRows, NumMonths, hreq[h].subsidiary,
                          CumulativeOf(hreq[h].subsidiary))]
             /\ hpc' = [hpc EXCEPT ![h] = "fy_bs_write"]
             /\ UNCHANGED <<reply, logged, hreq>>
        ELSE /\ AnswerAfter(h, RefreshReply,
                            IF branch = "raised" THEN {"bs"} ELSE {})
             /\ UNCHANGED to_write
    /\ UNCHANGED <<balance_cache, balance_cache_timestamp, datetime_now,
                   written_at, month_index, requests>>
    /\ UNCHANGED <<gateVars, orchVars, builderVars>>

\* batch_full_year_refresh: one pass of the cumulative Balance Sheet loop
FY_WriteBS(h) ==
    /\ hpc[h] = "fy_bs_write"
    /\ StoreNext(h)
    /\ IF Tail(to_write[h]) = <<>>
       THEN Answer(h, RefreshReply)
       ELSE UNCHANGED <<reply, logged, hpc, hreq>>
    /\ UNCHANGED <<balance_cache_timestamp, datetime_now, month_index,
                   requests>>
    /\ UNCHANGED <<gateVars, orchVars, builderVars>>

\* batch_full_year_refresh_bs: the request arrives and the loop over the
\* months begins
FB_Start(h) ==
    /\ Accept(h)
    /\ \E subsidiary \in RefreshSubsidiaries :
        hreq' = [hreq EXCEPT ![h] =
                    Request("full_year_refresh_bs", {}, Months, subsidiary)]
    /\ hpc' = [hpc EXCEPT ![h] = "fb_month"]
    /\ month_index' = [month_index EXCEPT ![h] = 1]
    /\ UNCHANGED <<balance_cache, balance_cache_timestamp, datetime_now,
                   written_at, to_write, reply, logged>>
    /\ UNCHANGED <<gateVars, orchVars, builderVars>>

\* batch_full_year_refresh_bs: one month -- its query runs and its rows are
\* cached, or the query raises and the loop continues with the next month;
\* after the last month balance_cache_timestamp = datetime.now()
FB_Month(h) ==
    /\ hpc[h] = "fb_month"
    /\ \E outcome \in {"ok", "raised"} :
        LET month == month_index[h]
            rows == {CacheKey(a, month, FiltersHash(hreq[h].subsidiary)) :
                        a \in BSAccounts}
        IN IF outcome = "ok"
           THEN /\ balance_cache' =
                     [k \in AllKeys |->
                         IF k \in rows
                         THEN Cumulative(k[1], month, hreq[h].subsidiary)
                         ELSE balance_cache[k]]
                /\ written_at' =
                     [k \in AllKeys |->
                         IF k \in rows THEN datetime_now ELSE written_at[k]]
                /\ IF month_index[h] < NumMonths
                   THEN UNCHANGED <<hpc, hreq, reply, logged>>
                   ELSE Answer(h, RefreshReply)
           ELSE /\ UNCHANGED <<balance_cache, written_at>>
                /\ IF month_index[h] < NumMonths
                   THEN /\ hreq' = [hreq EXCEPT ![h].failed = @ \cup {"bs"}]
                        /\ UNCHANGED <<hpc, reply, logged>>
                   ELSE AnswerAfter(h, RefreshReply, {"bs"})
    /\ IF month_index[h] < NumMonths
       THEN /\ month_index' = [month_index EXCEPT ![h] = @ + 1]
            /\ UNCHANGED balance_cache_timestamp
       ELSE /\ month_index' = [month_index EXCEPT ![h] = 0]
            /\ balance_cache_timestamp' = datetime_now
    /\ UNCHANGED <<datetime_now, to_write, requests>>
    /\ UNCHANGED <<gateVars, orchVars, builderVars>>

\* the P&L rows of batch_periods_refresh: one per account and period with
\* posted activity
ActivityRows(n, subsidiary) ==
    SelectSeq(Entries(PLRows, n, subsidiary, ActivityOf(subsidiary)),
              LAMBDA e : e[2] /= 0)

\* batch_periods_refresh: the P&L query for the requested periods; when it
\* raises the request ends with 500, otherwise its rows are cached
PR_Start(h) ==
    /\ Accept(h)
    /\ \E subsidiary \in RefreshSubsidiaries, n \in Months, outcome \in {"ok", "raised"} :
        IF outcome = "raised"
        THEN /\ reply' = ErrorReply
             /\ logged' = {"pl"}
             /\ UNCHANGED <<hpc, hreq, to_write>>
        ELSE /\ hreq' = [hreq EXCEPT ![h] =
                  Request("periods_refresh", {}, 1..n, subsidiary)]
             /\ to_write' = [to_write EXCEPT ![h] = ActivityRows(n, subsidiary)]
             /\ hpc' = [hpc EXCEPT ![h] =
                           IF ActivityRows(n, subsidiary) = <<>>
                           THEN "pr_bs" ELSE "pr_pl"]
             /\ UNCHANGED <<reply, logged>>
    /\ UNCHANGED <<balance_cache, balance_cache_timestamp, datetime_now,
                   written_at, month_index>>
    /\ UNCHANGED <<gateVars, orchVars, builderVars>>

\* batch_periods_refresh: one pass of `for row in pl_result:`
PR_WritePL(h) ==
    /\ hpc[h] = "pr_pl"
    /\ StoreNext(h)
    /\ hpc' = [hpc EXCEPT ![h] =
                  IF Tail(to_write[h]) = <<>> THEN "pr_bs" ELSE "pr_pl"]
    /\ UNCHANGED <<balance_cache_timestamp, datetime_now, hreq, month_index,
                   reply, logged, requests>>
    /\ UNCHANGED <<gateVars, orchVars, builderVars>>

\* batch_periods_refresh: the Balance Sheet activity query; when it raises
\* the request ends with 500, otherwise the cumulative loop begins
PR_BS(h) ==
    /\ hpc[h] = "pr_bs"
    /\ \E outcome \in {"ok", "raised"} :
        IF outcome = "raised"
        THEN /\ AnswerAfter(h, ErrorReply, {"bs"})
             /\ UNCHANGED to_write
        ELSE /\ to_write' = [to_write EXCEPT ![h] =
                  Entries(BSRows, Cardinality(hreq[h].periods),
                          hreq[h].subsidiary, CumulativeOf(hreq[h].subsidiary))]
             /\ hpc' = [hpc EXCEPT ![h] = "pr_bs_write"]
             /\ UNCHANGED <<reply, logged, hreq>>
    /\ UNCHANGED <<balance_cache, balance_cache_timestamp, datetime_now,
                   written_at, month_index, requests>>
    /\ UNCHANGED <<gateVars, orchVars, builderVars>>

\* batch_periods_refresh: one pass of the cumulative loop; the request is
\* answered after the last one (balance_cache_timestamp is not assigned)
PR_WriteBS(h) ==
    /\ hpc[h] = "pr_bs_write"
    /\ StoreNext(h)
    /\ IF Tail(to_write[h]) = <<>>
       THEN Answer(h, RefreshReply)
       ELSE UNCHANGED <<reply, logged, hpc, hreq>>
    /\ UNCHANGED <<balance_cache_timestamp, datetime_now, month_index,
                   requests>>
    /\ UNCHANGED <<gateVars, orchVars, builderVars>>

\* batch_bs_periods: the multi-period query; when it raises the request
\* ends with 500, otherwise the period columns of every account with a
\* non-zero balance are cached
BP_Start(h) ==
    /\ Accept(h)
    /\ \E subsidiary \in RefreshSubsidiaries, n \in Months, outcome \in {"ok", "raised"} :
        IF outcome = "raised"
        THEN /\ reply' = ErrorReply
             /\ logged' = {"bs"}
             /\ UNCHANGED <<hpc, hreq, to_write>>
        ELSE /\ hreq' = [hreq EXCEPT ![h] =
                  Request("bs_periods", {}, 1..n, subsidiary)]
             /\ to_write' = [to_write EXCEPT ![h] =
                                Entries(BSRows, n, subsidiary,
                                        CumulativeOf(subsidiary))]
             /\ hpc' = [hpc EXCEPT ![h] = "bp_write"]
             /\ UNCHANGED <<reply, logged>>
    /\ UNCHANGED <<balance_cache, balance_cache_timestamp, datetime_now,
                   written_at, month_index>>
    /\ UNCHANGED <<gateVars, orchVars, builderVars>>

\* batch_bs_periods: one cached period column; after the last one
\* balance_cache_timestamp = datetime.now() and the request is answered
BP_Write(h) ==
    /\ hpc[h] = "bp_write"
    /\ StoreNext(h)
    /\ IF Tail(to_write[h]) = <<>>
       THEN /\ balance_cache_timestamp' = datetime_now
            /\ Answer(h, RefreshReply)
       ELSE UNCHANGED <<balance_cache_timestamp, reply, logged, hpc, hreq>>
    /\ UNCHANGED <<datetime_now, month_index, requests>>
    /\ UNCHANGED <<gateVars, orchVars, builderVars>>

\* datetime.now() advances
ClockTick ==
    /\ datetime_now + ClockStep <= MaxClock
    /\ datetime_now' = datetime_now + ClockStep
    /\ UNCHANGED <<balance_cache, balance_cache_timestamp, written_at, hpc,
                   hreq, to_write, month_index, reply, logged, requests>>
    /\ UNCHANGED <<gateVars, orchVars, builderVars>>

\* ------------------------------------------------------------------------
\* Hierarchy Resolver: get_subsidiaries_in_hierarchy
\* ------------------------------------------------------------------------
SubIds == 1..NumSubsidiaries

\* the chain of parents of s ends at a root within `steps` links
RECURSIVE ReachesRoot(_, _, _)
ReachesRoot(table, s, steps) ==
    IF table[s].parent = NoParent
    THEN TRUE
    ELSE IF steps = 0
         THEN FALSE
         ELSE ReachesRoot(table, table[s].parent, steps - 1)

\* the Subsidiary tables of a ledger: every subsidiary has a parent or is a
\* root, the parent links form a forest, subsidiary 1 is a root, and a root
\* is active and is not an elimination subsidiary
SubsidiaryTables ==
    {table \in [SubIds -> [parent : SubIds \cup {NoParent},
                           isinactive : BOOLEAN,
                           iselimination : BOOLEAN]] :
        /\ table[1].parent = NoParent
        /\ \A s \in SubIds :
              /\ table[s].parent /= s
              /\ ReachesRoot(table, s, NumSubsidiaries)
              /\ table[s].parent = NoParent =>
                    ~table[s].isinactive /\ ~table[s].iselimination}

\* one root with an active subsidiary below it
DefaultSubsidiaryTable ==
    [s \in SubIds |->
        [parent |-> IF s = 1 THEN NoParent ELSE 1,
         isinactive |-> FALSE, iselimination |-> FALSE]]

\* the ids of the rows of `SELECT id, parent, iselimination FROM Subsidiary
\* WHERE isinactive = 'F'`, in id order: the keys of all_subs
ActiveRows(table) ==
    SelectSeq([i \in SubIds |-> i], LAMBDA s : ~table[s].isinactive)

\* children_map[parent_id], in row order
ChildrenMap(table, parent_id) ==
    SelectSeq(ActiveRows(table), LAMBDA s : table[s].parent = parent_id)

SeqRange(seq) == {seq[i] : i \in 1..Len(seq)}

\* `while to_process:` -- current = to_process.pop(0), and every child of
\* current that is not in hierarchy_ids yet is appended to both lists
RECURSIVE Traverse(_, _, _)
Traverse(table, hierarchy_ids, to_process) ==
    IF to_process = <<>>
    THEN hierarchy_ids
    ELSE LET current == Head(to_process)
             fresh == SelectSeq(ChildrenMap(table, current),
                                LAMBDA c : c \notin SeqRange(hierarchy_ids))
         IN Traverse(table, hierarchy_ids \o fresh, Tail(to_process) \o fresh)

\* a resolver that traverses from the root as from any other target
HierarchyIds_RootTraversed(table, target_id) ==
    Traverse(table, <<target_id>>, <<target_id>>)

\* hierarchy_ids: list(all_subs.keys()) when the target is a row without a
\* parent, otherwise the target followed by its descendants, breadth first
HierarchyIds(table, target_id) ==
    IF /\ target_id \in SeqRange(ActiveRows(table))
       /\ table[target_id].parent = NoParent
    THEN ActiveRows(table)
    ELSE Traverse(table, <<target_id>>, <<target_id>>)

\* a fallback with no subsidiary at all
TargetOnly_Empty(target_id) == <<>>

\* `return [target_id]` when the hierarchy could not be loaded
TargetOnly(target_id) == <<target_id>>

\* a target that is not in subsidiary_hierarchy_cache
NotCached == <<>>

\* a resolver that does not keep what it computed
Memoized_NotStored(cache, target_id, hierarchy_ids) == cache

\* subsidiary_hierarchy_cache[target_id] = hierarchy_ids
Memoized(cache, target_id, hierarchy_ids) ==
    [cache EXCEPT ![target_id] = hierarchy_ids]

NoCall == [target_id |-> NoParent, fetch |-> "none", hierarchy_ids |-> <<>>]

\* what the bulk query of the Subsidiary table gives: the rows; an error
\* dict (non-200 status, timeout); rows whose processing raises
FetchOutcomes == {"rows", "error", "raised"}

\* A consolidated request scopes its query to the hierarchy of its
\* subsidiary: hierarchy_subs = get_subsidiaries_in_hierarchy(subsidiary) and
\* where_clauses.append(f"tl.subsidiary IN ({sub_filter})").  The resolver
\* answers from subsidiary_hierarchy_cache when it can; otherwise it fetches
\* the table, and caches what it computed from the rows.
GetSubsidiariesInHierarchy(target_id) ==
    /\ IF subsidiary_hierarchy_cache[target_id] /= NotCached
       THEN /\ hierarchy_call' =
                  [target_id |-> target_id, fetch |-> "cached",
                   hierarchy_ids |-> subsidiary_hierarchy_cache[target_id]]
            /\ UNCHANGED subsidiary_hierarchy_cache
       ELSE \E outcome \in FetchOutcomes :
               IF outcome = "rows"
               THEN /\ hierarchy_call' =
                          [target_id |-> target_id, fetch |-> outcome,
                           hierarchy_ids |-> HierarchyIds(subsidiary_rows, target_id)]
                    /\ subsidiary_hierarchy_cache' =
                          Memoized(subsidiary_hierarchy_cache, target_id,
                                   HierarchyIds(subsidiary_rows, target_id))
               ELSE /\ hierarchy_call' =
                          [target_id |-> target_id, fetch |-> outcome,
                           hierarchy_ids |-> TargetOnly(target_id)]
                    /\ UNCHANGED subsidiary_hierarchy_cache
    /\ sub_filter' = hierarchy_call'.hierarchy_ids
    /\ UNCHANGED subsidiary_rows
    /\ UNCHANGED <<gateVars, orchVars, cacheVars, queryVars, supportVars>>

\* ------------------------------------------------------------------------
\* Balance Query Builder: the ledger's tables
\* ------------------------------------------------------------------------
\* account numbers and account patterns are strings, kept character by
\* character ('4*' is <<"4", "*">>)
Acct1000 == <<"1", "0", "0", "0">>
Acct2000 == <<"2", "0", "0", "0">>
Acct4010 == <<"4", "0", "1", "0">>
Acct4020 == <<"4", "0", "2", "0">>
Pattern4 == <<"4", "*">>
Pattern40 == <<"4", "0", "*">>

\* acctnumber of the rows of the Account table
AccountNumbers == {Acct1000, Acct2000, Acct4010, Acct4020}

\* accttype of an account
Accttype(acctnumber) ==
    CASE acctnumber = Acct1000 -> "Bank"
      [] acctnumber = Acct2000 -> "AcctPay"
      [] acctnumber = Acct4010 -> "Income"
      [] acctnumber = Acct4020 -> "Income"

\* AccountType.PL_TYPES and AccountType.NON_FINANCIAL_TYPES
PL_TYPES ==
    {"Income", "OthIncome", "COGS", "Cost of Goods Sold", "Expense", "OthExpense"}

NON_FINANCIAL_TYPES == {"NonPosting", "Stat"}

\* AccountType.SIGN_FLIP_TYPES and INCOME_TYPES_SQL
SIGN_FLIP_TYPES ==
    {"AcctPay", "CredCard", "OthCurrLiab", "LongTermLiab", "DeferRevenue",
     "Equity", "RetainedEarnings"}

INCOME_TYPES == {"Income", "OthIncome"}

\* AccountType.is_balance_sheet
is_balance_sheet(accttype) ==
    accttype \notin PL_TYPES /\ accttype \notin NON_FINANCIAL_TYPES

\* the AccountingPeriod table: two months, dates counted in days from
\* 1 Jan 2025
PeriodIds == {1, 2}

AccountingPeriod ==
    [id \in PeriodIds |->
        IF id = 1
        THEN [periodname |-> "Jan 2025", startdate |-> 1, enddate |-> 31]
        ELSE [periodname |-> "Feb 2025", startdate |-> 32, enddate |-> 59]]

KnownPeriodNames == {AccountingPeriod[id].periodname : id \in PeriodIds}

\* period names a caller may send: the two months of the table, a month the
\* table does not have, and a name that is not a month
PeriodNames == KnownPeriodNames \cup {"Mar 2031", "FY25"}

NoDate == 0
NoPeriodId == 0

\* get_period_dates_from_name: (startdate, enddate, id) of the period with
\* that name, (None, None, None) without one
get_period_dates_from_name(period_name) ==
    IF period_name \in KnownPeriodNames
    THEN LET id == CHOOSE i \in PeriodIds :
                       AccountingPeriod[i].periodname = period_name
         IN [startdate |-> AccountingPeriod[id].startdate,
             enddate |-> AccountingPeriod[id].enddate,
             id |-> id]
    ELSE [startdate |-> NoDate, enddate |-> NoDate, id |-> NoPeriodId]

\* calculate_period_end_date: the last day of the month a 'Mon YYYY' name
\* spells, None for another name; 31 Mar 2031 is day 2281
calculate_period_end_date(period_name) ==
    CASE period_name = "Jan 2025" -> 31
      [] period_name = "Feb 2025" -> 59
      [] period_name = "Mar 2031" -> 2281
      [] OTHER -> NoDate

\* the posted lines of TransactionAccountingLine joined with Transaction and
\* TransactionLine; subsidiary 2 keeps its books in a foreign currency
PostedLines ==
    << [account |-> Acct4010, postingperiod |-> 1, trandate |-> 15,
        subsidiary |-> 1, amount |-> -100],
       [account |-> Acct4010, postingperiod |-> 2, trandate |-> 40,
        subsidiary |-> 1, amount |-> -50],
       [account |-> Acct4020, postingperiod |-> 1, trandate |-> 20,
        subsidiary |-> 2, amount |-> -20],
       [account |-> Acct1000, postingperiod |-> 1, trandate |-> 10,
        subsidiary |-> 1, amount |-> 300],
       [account |-> Acct1000, postingperiod |-> 2, trandate |-> 45,
        subsidiary |-> 2, amount |-> 40],
       [account |-> Acct2000, postingperiod |-> 1, trandate |-> 12,
        subsidiary |-> 2, amount |-> -60],
       [account |-> Acct2000, postingperiod |-> 2, trandate |-> 50,
        subsidiary |-> 1, amount |-> -10] >>

LineIds == 1..Len(PostedLines)

\* the consolidated exchange rate of a subsidiary's currency in a period
ExchangeRate(subsidiary, period_id) ==
    IF subsidiary = 1 THEN 1 ELSE IF period_id = 1 THEN 2 ELSE 3

\* BUILTIN.CONSOLIDATE(tal.amount, 'LEDGER', 'DEFAULT', 'DEFAULT', target_sub,
\* period, 'DEFAULT') for target subsidiary 1
Consolidate(line, period_id) ==
    line.amount * ExchangeRate(line.subsidiary, period_id)

\* ------------------------------------------------------------------------
\* Balance Query Builder: the queries and what the ledger returns for them
\* ------------------------------------------------------------------------
HasWildcard(acc) == \E i \in 1..Len(acc) : acc[i] = "*"

\* str.startswith
StartsWith(str, prefix) ==
    /\ Len(prefix) <= Len(str)
    /\ SubSeq(str, 1, Len(prefix)) = prefix

\* acc_str.replace('*', '')
WithoutStars(acc) == SelectSeq(acc, LAMBDA c : c /= "*")

\* build_account_filter: `acctnumber IN (...)` for the exact numbers, and
\* `acctnumber LIKE '4%'` for a pattern '4*'
AccountFilter(accounts, acctnumber) ==
    \E acc \in accounts :
        IF HasWildcard(acc)
        THEN /\ acc[Len(acc)] = "*"
             /\ StartsWith(acctnumber, SubSeq(acc, 1, Len(acc) - 1))
        ELSE acctnumber = acc

\* the period argument of BUILTIN.CONSOLIDATE: t.postingperiod, a fixed
\* period id, or no consolidation at all (amount_calc = "tal.amount")
ByPostingPeriod == [by |-> "t.postingperiod", id |-> NoPeriodId]
ByPeriodId(period_id) == [by |-> "period_id", id |-> period_id]
Unconsolidated == [by |-> "tal.amount", id |-> NoPeriodId]

\* the date conditions of a WHERE clause
NoDateFilter == [kind |-> "none", lo |-> NoDate, hi |-> NoDate, names |-> {}]

\* ap.startdate >= from_start AND ap.enddate <= to_end
PeriodRange(from_start, to_end) ==
    [kind |-> "range", lo |-> from_start, hi |-> to_end, names |-> {}]

\* ap.periodname = ... and apf.periodname IN (...)
PeriodNameIn(names) ==
    [kind |-> "periodname", lo |-> NoDate, hi |-> NoDate, names |-> names]

\* t.trandate <= TO_DATE(end_date_str): no lower bound
TrandateUpTo(enddate) ==
    [kind |-> "trandate", lo |-> NoDate, hi |-> enddate, names |-> {}]

\* whether a line passes the WHERE clause of query q
LineMatches(q, line) ==
    /\ AccountFilter(q.accounts, line.account)
    /\ CASE q.types = "pl" -> Accttype(line.account) \in PL_TYPES
         [] q.types = "bs" -> Accttype(line.account) \notin PL_TYPES
         [] OTHER -> TRUE
    /\ CASE q.dates.kind = "range" ->
              /\ AccountingPeriod[line.postingperiod].startdate >= q.dates.lo
              /\ AccountingPeriod[line.postingperiod].enddate <= q.dates.hi
         [] q.dates.kind = "periodname" ->
              AccountingPeriod[line.postingperiod].periodname \in q.dates.names
         [] q.dates.kind = "trandate" -> line.trandate <= q.dates.hi
         [] OTHER -> TRUE

\* sign_sql: `* CASE WHEN a.accttype IN (INCOME_TYPES_SQL) THEN -1 ELSE 1 END`
\* where the query has it
SignFactor(sign, accttype) ==
    IF sign = "income" /\ accttype \in INCOME_TYPES THEN -1 ELSE 1

\* the amount a line contributes to the SUM of query q
LineAmount(q, line) ==
    (CASE q.consolidate.by = "tal.amount" -> line.amount
       [] q.consolidate.by = "t.postingperiod" ->
            Consolidate(line, line.postingperiod)
       [] OTHER -> Consolidate(line, q.consolidate.id))
        * SignFactor(q.sign, Accttype(line.account))

RECURSIVE SumLines(_, _)
\* SUM over the lines with the ids in `ids`
SumLines(q, ids) ==
    IF ids = {}
    THEN 0
    ELSE LET i == CHOOSE j \in ids : TRUE
         IN LineAmount(q, PostedLines[i]) + SumLines(q, ids \ {i})

Matching(q) == {i \in LineIds : LineMatches(q, PostedLines[i])}

\* `SELECT SUM(x.cons_amt) AS balance`, read by get_balance: no matching
\* line gives NULL, which leaves total_balance = 0.0
TotalBalance(q) == SumLines(q, Matching(q))

\* the rows of `... GROUP BY a.acctnumber, ap.periodname`: one per account
\* and period with a matching line
RowsByAccountAndPeriod(q) ==
    LET keys == {<<PostedLines[i].account,
                   AccountingPeriod[PostedLines[i].postingperiod].periodname>> :
                    i \in Matching(q)}
    IN [k \in keys |->
           SumLines(q, {i \in Matching(q) :
                           /\ PostedLines[i].account = k[1]
                           /\ AccountingPeriod[PostedLines[i].postingperiod].periodname
                                  = k[2]})]

\* the rows of `... GROUP BY a.acctnumber`, labelled with the period the
\* query was built for
RowsByAccount(q, period) ==
    LET keys == {<<PostedLines[i].account, period>> : i \in Matching(q)}
    IN [k \in keys |->
           SumLines(q, {i \in Matching(q) : PostedLines[i].account = k[1]})]

\* build_pl_query
build_pl_query(accounts, periods) ==
    [accounts |-> accounts, types |-> "pl", dates |-> PeriodNameIn(periods),
     consolidate |-> ByPostingPeriod, sign |-> "income"]

\* build_bs_query_single_period
build_bs_query_single_period(accounts, info) ==
    [accounts |-> accounts, types |-> "bs", dates |-> TrandateUpTo(info.enddate),
     consolidate |-> IF info.id /= NoPeriodId THEN ByPeriodId(info.id)
                                             ELSE Unconsolidated,
     sign |-> "none"]

\* ------------------------------------------------------------------------
\* get_balance, the recompute path of batch_balance, and the period check of
\* calculate_cta and calculate_retained_earnings
\* ------------------------------------------------------------------------
\* a dict without keys
EmptyDict == [k \in {} |-> 0]

\* d[key] = value
Put(d, key, value) ==
    [k \in DOMAIN d \cup {key} |-> IF k = key THEN value ELSE d[k]]

NoBalanceRequest ==
    [endpoint |-> "none", account |-> <<>>, from_period |-> "",
     to_period |-> "", accounts |-> <<>>, periods |-> {}]

NoAnswer == [status |-> 0, value |-> 0, balances |-> EmptyDict]

\* str(total_balance); jsonify({'balances': all_balances}); and
\* jsonify({'error': ...}) with its status
ValueAnswer(total_balance) ==
    [status |-> 200, value |-> total_balance, balances |-> EmptyDict]

BalancesAnswer(balances) == [status |-> 200, value |-> 0, balances |-> balances]

ErrorAnswer(status) == [status |-> status, value |-> 0, balances |-> EmptyDict]

\* what query_netsuite returns for a query: the rows, or an error dict
QueryResults == {"rows", "error"}

\* the request thread is free to take the next request
RequestThreadFree == qpc \in {"idle", "answered", "orchestrating"}

\* the accounts and the periods the requests name
GBAccounts == {Acct1000, Acct2000, Acct4010}
FromPeriods == {"", "Jan 2025", "Feb 2025"}
ToPeriods == {"", "Jan 2025", "Feb 2025", "Mar 2031"}

AccountLists ==
    {<<Acct4010>>, <<Acct1000>>, <<Acct2000>>, <<Acct4010, Acct1000>>,
     <<Pattern4>>, <<Pattern4, Acct4010>>, <<Pattern4, Pattern40>>,
     <<Pattern40, Pattern4>>}

PeriodLists ==
    {{"Jan 2025"}, {"Feb 2025"}, {"Jan 2025", "Feb 2025"}, {"Mar 2031"},
     {"FY25"}, {"Feb 2025", "Mar 2031"}}

\* get_balance: the request arrives and the account-type query runs; when
\* it fails is_bs_account stays False
GB_Classify ==
    /\ RequestThreadFree
    /\ \E account \in GBAccounts, from_period \in FromPeriods,
          to_period \in ToPeriods, type_result \in QueryResults :
        /\ qreq' = [NoBalanceRequest EXCEPT !.endpoint = "balance",
                                            !.account = account,
                                            !.from_period = from_period,
                                            !.to_period = to_period]
        /\ is_bs_account' = /\ type_result = "rows"
                            /\ is_balance_sheet(Accttype(account))
    /\ qpc' = "gb_query"
    /\ period_info' = EmptyDict
    /\ pl_accounts' = {}
    /\ bs_accounts' = {}
    /\ all_balances' = EmptyDict
    /\ sent' = {}
    /\ qresp' = NoAnswer
    /\ UNCHANGED <<gateVars, orchVars, cacheVars, hierVars, supportVars>>

\* "For BS accounts, ignore from_period": from_period = '' when the account
\* was found to be a Balance Sheet account and both periods are given
GB_FromPeriod(req, is_bs) ==
    IF is_bs /\ req.from_period /= "" /\ req.to_period /= ""
    THEN ""
    ELSE req.from_period

\* "Handle period filters" of get_balance, for period names
GB_Dates(from_period, to_period) ==
    LET from_dates == get_period_dates_from_name(from_period)
        to_dates == get_period_dates_from_name(to_period)
    IN IF from_period /= "" /\ to_period /= ""
       THEN IF from_dates.startdate /= NoDate /\ to_dates.enddate /= NoDate
            THEN PeriodRange(from_dates.startdate, to_dates.enddate)
            ELSE PeriodNameIn({from_period})
       ELSE IF from_period /= ""
            THEN PeriodNameIn({from_period})
            ELSE IF to_period /= ""
                 THEN IF to_dates.enddate /= NoDate
                      THEN TrandateUpTo(to_dates.enddate)
                      ELSE PeriodNameIn({to_period})
                 ELSE NoDateFilter

\* the query get_balance builds
GB_Query(req, is_bs) ==
    [accounts |-> {req.account}, types |-> "any",
     dates |-> GB_Dates(GB_FromPeriod(req, is_bs), req.to_period),
     consolidate |-> ByPostingPeriod, sign |-> "income"]

\* is_cumulative_bs: the query is built without the AccountingPeriod join
is_cumulative_bs(req, is_bs) ==
    is_bs /\ GB_FromPeriod(req, is_bs) = "" /\ req.to_period /= ""

\* get_balance: the query is built and sent; an error dict gives 500,
\* otherwise the balance of the first row is returned.  A cumulative query
\* that filters on ap.periodname names a table it does not join, and the
\* ledger rejects it.
GB_Answer ==
    /\ qpc = "gb_query"
    /\ \E result_kind \in QueryResults :
        LET query == GB_Query(qreq, is_bs_account)
        IN /\ (is_cumulative_bs(qreq, is_bs_account)
                  /\ query.dates.kind = "periodname") => result_kind = "error"
           /\ sent' = {[period |-> IF qreq.to_period /= "" THEN qreq.to_period
                                                            ELSE qreq.from_period,
                        query |-> query, result |-> result_kind]}
           /\ qresp' = IF result_kind = "rows"
                       THEN ValueAnswer(TotalBalance(query))
                       ELSE ErrorAnswer(500)
    /\ qpc' = "answered"
    /\ UNCHANGED <<qreq, is_bs_account, period_info, pl_accounts, bs_accounts,
                   all_balances>>
    /\ UNCHANGED <<gateVars, orchVars, cacheVars, hierVars, supportVars>>

\* period_info of batch_balance: the end date and id of every period found
\* in AccountingPeriod; for a period that is not found, the end date
\* calculated from its name with id None; no entry when that fails too
PeriodInfo(periods) ==
    LET found(p) == /\ get_period_dates_from_name(p).enddate /= NoDate
                    /\ get_period_dates_from_name(p).id /= NoPeriodId
    IN [p \in {n \in periods : found(n) \/ calculate_period_end_date(n) /= NoDate} |->
           IF found(p)
           THEN [enddate |-> get_period_dates_from_name(p).enddate,
                 id |-> get_period_dates_from_name(p).id]
           ELSE [enddate |-> calculate_period_end_date(p), id |-> NoPeriodId]]

\* the rows of `SELECT acctnumber, accttype FROM Account WHERE ...`
TypeRows(accounts) ==
    {a \in AccountNumbers : AccountFilter(SeqRange(accounts), a)}

\* batch_balance, recompute path: the periods are resolved and the
\* account-type query classifies the accounts; when it fails, "assume all
\* accounts are P&L"
BQ_Classify ==
    /\ RequestThreadFree
    /\ \E accounts \in AccountLists, periods \in PeriodLists,
          type_result \in QueryResults :
        /\ qreq' = [NoBalanceRequest EXCEPT !.endpoint = "batch_balance",
                                            !.accounts = accounts,
                                            !.periods = periods]
        /\ period_info' = PeriodInfo(periods)
        /\ IF type_result = "rows"
           THEN /\ bs_accounts' = {a \in TypeRows(accounts) :
                                      is_balance_sheet(Accttype(a))}
                /\ pl_accounts' = {a \in TypeRows(accounts) :
                                      ~is_balance_sheet(Accttype(a))}
           ELSE /\ bs_accounts' = {}
                /\ pl_accounts' = SeqRange(accounts)
    /\ qpc' = "bq_query"
    /\ is_bs_account' = FALSE
    /\ all_balances' = EmptyDict
    /\ sent' = {}
    /\ qresp' = NoAnswer
    /\ UNCHANGED <<gateVars, orchVars, cacheVars, hierVars, supportVars>>

\* all_balances[account_num][period] = balance for every row
Nested(rows) ==
    [a \in {k[1] : k \in DOMAIN rows} |->
        [p \in {k[2] : k \in {j \in DOMAIN rows : j[1] = a}} |-> rows[<<a, p>>]]]

\* the rows of two results, side by side
Merged(rows1, rows2) ==
    [k \in DOMAIN rows1 \cup DOMAIN rows2 |->
        IF k \in DOMAIN rows2 THEN rows2[k] ELSE rows1[k]]

RECURSIVE AllRows(_, _, _)
\* the rows of the Balance Sheet queries of the periods in `periods`
AllRows(accounts, info, periods) ==
    IF periods = {}
    THEN EmptyDict
    ELSE LET p == CHOOSE n \in periods : TRUE
         IN Merged(AllRows(accounts, info, periods \ {p}),
                   RowsByAccount(build_bs_query_single_period(accounts, info[p]), p))

\* batch_balance, recompute path: the P&L query runs if there are P&L
\* accounts, and one Balance Sheet query per entry of period_info if there
\* are Balance Sheet accounts; a query that fails is printed and adds no row
BQ_Query ==
    /\ qpc = "bq_query"
    /\ \E pl_result \in QueryResults, bs_result \in QueryResults :
        LET pl_query == build_pl_query(pl_accounts, qreq.periods)
            bs_periods == IF bs_accounts /= {} THEN DOMAIN period_info ELSE {}
            pl_rows == IF pl_accounts /= {} /\ pl_result = "rows"
                       THEN RowsByAccountAndPeriod(pl_query)
                       ELSE EmptyDict
            bs_rows == IF bs_result = "rows"
                       THEN AllRows(bs_accounts, period_info, bs_periods)
                       ELSE EmptyDict
        IN /\ pl_accounts = {} => pl_result = "rows"
           /\ bs_periods = {} => bs_result = "rows"
           /\ all_balances' = Nested(Merged(pl_rows, bs_rows))
           /\ sent' =
                 (IF pl_accounts /= {}
                  THEN {[period |-> "", query |-> pl_query, result |-> pl_result]}
                  ELSE {})
                 \cup {[period |-> p,
                        query |-> build_bs_query_single_period(bs_accounts,
                                                               period_info[p]),
                        result |-> bs_result] : p \in bs_periods}
    /\ qpc' = "bq_merge"
    /\ UNCHANGED <<qreq, is_bs_account, period_info, pl_accounts, bs_accounts,
                   qresp>>
    /\ UNCHANGED <<gateVars, orchVars, cacheVars, hierVars, supportVars>>

RECURSIVE SumBalances(_, _, _)
\* wildcard_totals[period] += balance over the accounts in `keys`
SumBalances(balances, keys, period) ==
    IF keys = {}
    THEN 0
    ELSE LET k == CHOOSE j \in keys : TRUE
         IN balances[k][period] + SumBalances(balances, keys \ {k}, period)

\* wildcard_totals: for every key of all_balances that starts with the
\* pattern, its balance is added to the total of each of its periods
WildcardTotals(balances, pattern) ==
    LET keys == {k \in DOMAIN balances : StartsWith(k, pattern)}
    IN [p \in UNION {DOMAIN balances[k] : k \in keys} |->
           SumBalances(balances, {k \in keys : p \in DOMAIN balances[k]}, p)]

RECURSIVE WithWildcardSums(_, _)
\* `for original_account in accounts: if '*' in str(original_account): ...
\* all_balances[original_account] = wildcard_totals`
WithWildcardSums(balances, accounts) ==
    IF accounts = <<>>
    THEN balances
    ELSE LET original_account == Head(accounts)
         IN WithWildcardSums(
                IF HasWildcard(original_account)
                THEN Put(balances, original_account,
                         WildcardTotals(balances, WithoutStars(original_account)))
                ELSE balances,
                Tail(accounts))

\* "Fill in zeros for missing account/period combinations"
ZeroFilled(balances, accounts, periods) ==
    [a \in DOMAIN balances \cup SeqRange(accounts) |->
        IF a \notin SeqRange(accounts)
        THEN balances[a]
        ELSE LET have == IF a \in DOMAIN balances THEN balances[a] ELSE EmptyDict
             IN [p \in DOMAIN have \cup periods |->
                    IF p \in DOMAIN have THEN have[p] ELSE 0]]

\* batch_balance, recompute path: the wildcard sums, the zero fill and
\* return jsonify({'balances': all_balances})
BQ_Answer ==
    /\ qpc = "bq_merge"
    /\ all_balances' = ZeroFilled(WithWildcardSums(all_balances, qreq.accounts),
                                  qreq.accounts, qreq.periods)
    /\ qresp' = BalancesAnswer(all_balances')
    /\ qpc' = "answered"
    /\ UNCHANGED <<qreq, is_bs_account, period_info, pl_accounts, bs_accounts,
                   sent>>
    /\ UNCHANGED <<gateVars, orchVars, cacheVars, hierVars, supportVars>>

\* calculate_cta and calculate_retained_earnings: fy_info =
\* get_fiscal_year_for_period(period_name); without a row for the period
\* (or with an error dict) the request is answered with 400, otherwise the
\* component queries are built and handed to the pool
DM_ResolvePeriod ==
    /\ RequestThreadFree
    /\ \E ep \in Endpoints, period_name \in PeriodNames,
          fy_result \in QueryResults :
        /\ qreq' = [NoBalanceRequest EXCEPT !.endpoint = ep,
                                            !.to_period = period_name]
        /\ IF fy_result = "rows" /\ period_name \in KnownPeriodNames
           THEN /\ qpc' = "orchestrating"
                /\ qresp' = NoAnswer
           ELSE /\ qpc' = "answered"
                /\ qresp' = ErrorAnswer(400)
    /\ is_bs_account' = FALSE
    /\ period_info' = EmptyDict
    /\ pl_accounts' = {}
    /\ bs_accounts' = {}
    /\ all_balances' = EmptyDict
    /\ sent' = {}
    /\ UNCHANGED <<gateVars, orchVars, cacheVars, hierVars, supportVars>>

\* ------------------------------------------------------------------------
\* Activity reconstruction: the cumulative loops of batch_full_year_refresh
\* and batch_periods_refresh for one Balance Sheet account
\* ------------------------------------------------------------------------
\* the months of the fiscal year, in month_order
Periods == 1..NumPeriods

\* amounts are in thousandths of the currency unit; 0.01 is 10
Cent == 10

\* the ledger's balance of the account at the end of the prior year, and
\* its activity in a month
OpeningBalances == {0, 2000}
ActivityAmounts == {0, 3, 500}

RECURSIVE SumActivity(_, _, _)
\* the activity posted in the months from..to
SumActivity(activity, from, to) ==
    IF to < from
    THEN 0
    ELSE SumActivity(activity, from, to - 1) + activity[to]

\* the ledger's balance at the end of month m
LedgerCumulative(opening, activity, m) ==
    opening + SumActivity(activity, 1, m)

\* the rows of the activity query for the months from..to: one per month
\* with posted activity
ActivityByPeriod(activity, from, to) ==
    [m \in {n \in from..to : activity[n] /= 0} |-> activity[m]]

\* activity_by_period.get(period_name, 0)
ActivityIn(activity_by_period, m) ==
    IF m \in DOMAIN activity_by_period THEN activity_by_period[m] ELSE 0

\* `if abs(cumulative) < 0.01: cumulative = 0`
ZeroIfTiny(amount) == IF amount > -Cent /\ amount < Cent THEN 0 ELSE amount

\* round(cumulative, 2): to the nearest hundredth
Round2(amount) ==
    IF amount >= 0
    THEN ((amount + 5) \div Cent) * Cent
    ELSE -(((-amount + 5) \div Cent) * Cent)

\* what the prior-balance query gives: rows, or nothing usable (an error
\* dict, or an exception that is caught and printed)
PriorResults == {"rows", "failed"}

\* prior_year_balances.get(account, 0) of batch_full_year_refresh
FY_Prior(opening, prior_result) ==
    IF prior_result = "rows" THEN opening ELSE 0

RECURSIVE FY_Cumulative(_, _, _)
\* batch_full_year_refresh, "Step 2": cumulative after the pass of the loop
\* over month_order for month m
FY_Cumulative(activity_by_period, prior, m) ==
    IF m = 0
    THEN prior
    ELSE ZeroIfTiny(FY_Cumulative(activity_by_period, prior, m - 1)
                        + ActivityIn(activity_by_period, m))

\* prior_balances.get(account, 0) of batch_periods_refresh: the balance of
\* everything before the earliest requested period, 0 when tiny
PR_Prior(opening, activity, earliest, prior_result) ==
    IF prior_result = "rows"
    THEN ZeroIfTiny(LedgerCumulative(opening, activity, earliest - 1))
    ELSE 0

\* the requested periods up to and including m, in chronological order
Chronological(periods, m) ==
    SelectSeq([i \in 1..NumPeriods |-> i], LAMBDA n : n \in periods /\ n <= m)

RECURSIVE PR_Walk(_, _, _)
\* batch_periods_refresh, "Step 4": cumulative after walking the periods of
\* parsed_periods in `walk`
PR_Walk(activity_by_period, prior, walk) ==
    IF walk = <<>>
    THEN prior
    ELSE ZeroIfTiny(Round2(
             PR_Walk(activity_by_period, prior, SubSeq(walk, 1, Len(walk) - 1))
                 + ActivityIn(activity_by_period, walk[Len(walk)])))

NoReconstruction ==
    [op |-> "none", periods |-> {}, opening |-> 0,
     activity |-> [m \in Periods |-> 0], prior_result |-> "rows",
     balances |-> [m \in {} |-> 0]]

\* the smallest month of a set of requested periods
Earliest(periods) == CHOOSE m \in periods : \A n \in periods : m <= n
Latest(periods) == CHOOSE m \in periods : \A n \in periods : n <= m

\* batch_full_year_refresh: the activity rows of the year, the prior-year
\* ending balance and the cumulative balance of every month of the year;
\* an account without an activity row gets no balance
FY_Reconstruct ==
    /\ \E opening \in OpeningBalances, activity \in [Periods -> ActivityAmounts],
          prior_result \in PriorResults :
        LET activity_by_period == ActivityByPeriod(activity, 1, NumPeriods)
            prior == FY_Prior(opening, prior_result)
        IN recon' =
               [op |-> "full_year_refresh", periods |-> Periods,
                opening |-> opening, activity |-> activity,
                prior_result |-> prior_result,
                balances |->
                    [m \in IF DOMAIN activity_by_period = {} THEN {} ELSE Periods |->
                        FY_Cumulative(activity_by_period, prior, m)]]
    /\ UNCHANGED <<gateVars, orchVars, cacheVars, hierVars, queryVars, besidesRecon>>

\* batch_periods_refresh: the activity rows from the earliest through the
\* latest requested period, the balance before the earliest one and the
\* cumulative balance of every requested period
PR_Reconstruct ==
    /\ \E opening \in OpeningBalances, activity \in [Periods -> ActivityAmounts],
          periods \in SUBSET Periods \ {{}}, prior_result \in PriorResults :
        LET activity_by_period ==
                ActivityByPeriod(activity, Earliest(periods), Latest(periods))
            prior == PR_Prior(opening, activity, Earliest(periods), prior_result)
        IN recon' =
               [op |-> "periods_refresh", periods |-> periods,
                opening |-> opening, activity |-> activity,
                prior_result |-> prior_result,
                balances |->
                    [m \in IF DOMAIN activity_by_period = {} THEN {} ELSE periods |->
                        PR_Walk(activity_by_period, prior,
                                Chronological(periods, m))]]
    /\ UNCHANGED <<gateVars, orchVars, cacheVars, hierVars, queryVars, besidesRecon>>

\* ------------------------------------------------------------------------
\* Multi-page fetch (SpecPage): query_netsuite_paginated and
\* run_paginated_suiteql, one call at a time
\* ------------------------------------------------------------------------
\* NetSuite's page limit: `page_size = min(page_size, 1000)`
NetSuitePageLimit == 1000

\* `if offset > 100000: break`
OffsetSafetyLimit == 100000

\* the page_size with which query_netsuite_paginated is called (its default)
QP_PageSizes == {1000}

\* the (page_size, max_pages) with which run_paginated_suiteql is called
RP_Arguments == {<<1000, 5>>, <<1000, 20>>, <<100, 1>>}

\* the lengths a page of at most page_size rows is given here
PageLengths(page_size) == {0, page_size - 1, page_size}

Min(a, b) == IF a < b THEN a ELSE b

NoFetch ==
    [fn |-> "none", pc |-> "idle", page_size |-> 0, max_pages |-> 0,
     offset |-> 0, page_num |-> 0, posts |-> 0, all_rows |-> 0, rows |-> 0,
     outcome |-> "none"]

\* a loop of run_paginated_suiteql without max_pages
RP_MorePages_Unbounded(pages, max_pages) == TRUE

\* `while page_num < max_pages:`
RP_MorePages(pages, max_pages) == pages < max_pages

\* `if offset > 100000:` of query_netsuite_paginated
QP_SafetyLimitReached(offset) == offset > OffsetSafetyLimit

\* query_netsuite_paginated is called and sends the query of its first page
QP_Call ==
    /\ pager.pc \in {"idle", "returned"}
    /\ \E page_size \in QP_PageSizes :
        pager' = [NoFetch EXCEPT !.fn = "query_netsuite_paginated",
                                 !.pc = "waiting",
                                 !.page_size = Min(page_size, NetSuitePageLimit),
                                 !.posts = 1]
    /\ UNCHANGED <<gateVars, orchVars, cacheVars, hierVars, queryVars, besidesPage>>

\* query_netsuite returns: an error dict is returned as it is; a list is
\* added to all_results, a short one ends the loop, a full one moves the
\* offset and, unless the offset is past the safety limit, asks for the next
QP_Page ==
    /\ pager.fn = "query_netsuite_paginated"
    /\ pager.pc = "waiting"
    /\ \/ pager' = [pager EXCEPT !.pc = "returned", !.outcome = "error"]
       \/ \E rows_returned \in PageLengths(pager.page_size) :
            LET got == [pager EXCEPT !.rows = rows_returned,
                                     !.all_rows = @ + rows_returned]
                moved == [got EXCEPT !.offset = @ + pager.page_size]
            IN pager' =
                 IF rows_returned < pager.page_size
                 THEN [got EXCEPT !.pc = "returned", !.outcome = "rows"]
                 ELSE IF QP_SafetyLimitReached(moved.offset)
                      THEN [moved EXCEPT !.pc = "returned", !.outcome = "rows"]
                      ELSE [moved EXCEPT !.posts = @ + 1]
    /\ UNCHANGED <<gateVars, orchVars, cacheVars, hierVars, queryVars, besidesPage>>

\* run_paginated_suiteql is called: the loop is entered when max_pages allows
\* a first page, and the first page is posted
RP_Call ==
    /\ pager.pc \in {"idle", "returned"}
    /\ \E args \in RP_Arguments :
        LET called == [NoFetch EXCEPT !.fn = "run_paginated_suiteql",
                                      !.page_size = args[1],
                                      !.max_pages = args[2]]
        IN pager' =
             IF RP_MorePages(called.page_num, called.max_pages)
             THEN [called EXCEPT !.pc = "waiting", !.page_num = @ + 1, !.posts = 1]
             ELSE [called EXCEPT !.pc = "returned", !.outcome = "rows"]
    /\ UNCHANGED <<gateVars, orchVars, cacheVars, hierVars, queryVars, besidesPage>>

\* requests.post returns: a status other than 200 raises; the rows are added
\* to all_rows, a short page ends the loop, a full one moves the offset and
\* the loop condition decides whether another page is posted
RP_Page ==
    /\ pager.fn = "run_paginated_suiteql"
    /\ pager.pc = "waiting"
    /\ \/ pager' = [pager EXCEPT !.pc = "returned", !.outcome = "raised"]
       \/ \E rows \in PageLengths(pager.page_size) :
            LET got == [pager EXCEPT !.rows = rows, !.all_rows = @ + rows]
                moved == [got EXCEPT !.offset = @ + pager.page_size]
            IN pager' =
                 IF rows < pager.page_size
                 THEN [got EXCEPT !.pc = "returned", !.outcome = "rows"]
                 ELSE IF RP_MorePages(moved.page_num, moved.max_pages)
                      THEN [moved EXCEPT !.page_num = @ + 1, !.posts = @ + 1]
                      ELSE [moved EXCEPT !.pc = "returned", !.outcome = "rows"]
    /\ UNCHANGED <<gateVars, orchVars, cacheVars, hierVars, queryVars, besidesPage>>

\* ------------------------------------------------------------------------
\* Concurrent orchestrated requests (SpecPools): every /cta and
\* /retained-earnings request creates its own ThreadPoolExecutor, and the
\* threads of all of them call query_netsuite
\* ------------------------------------------------------------------------
OrchRequests == 1..NumOrchestrated

\* the threads a pool can have: max_workers of calculate_cta
PoolThreads == 1..MaxWorkers("cta")

NoPool ==
    [endpoint |-> "none", pending |-> 0,
     pc |-> [w \in PoolThreads |-> "idle"],
     attempt |-> [w \in PoolThreads |-> 0]]

\* request r arrives: `with ThreadPoolExecutor(max_workers=...) as executor`
\* and one executor.submit per query
Pool_Submit(r) ==
    /\ pools[r].endpoint = "none"
    /\ \E ep \in Endpoints :
        pools' = [pools EXCEPT ![r] =
                     [NoPool EXCEPT !.endpoint = ep,
                                    !.pending = Len(QueryNames(ep))]]
    /\ UNCHANGED <<rate_limited, gateVars, orchVars, cacheVars, hierVars,
                   queryVars, besidesPool>>

\* the lowest idle thread of the pool takes the next submitted query and
\* enters query_with_retry: it waits at `with netsuite_semaphore:`
Pool_Take(r, w) ==
    /\ pools[r].endpoint /= "none"
    /\ w \in Workers(pools[r].endpoint)
    /\ pools[r].pc[w] = "idle"
    /\ \A u \in Workers(pools[r].endpoint) : u < w => pools[r].pc[u] /= "idle"
    /\ pools[r].pending > 0
    /\ pools' = [pools EXCEPT ![r].pending = @ - 1,
                              ![r].pc[w] = "qn_enter",
                              ![r].attempt[w] = 0]
    /\ UNCHANGED <<rate_limited, gateVars, orchVars, cacheVars, hierVars,
                   queryVars, besidesPool>>

\* `with netsuite_semaphore:` -- the thread takes a permit and keeps it while
\* it paces and posts the query
Pool_AcquireSemaphore(r, w) ==
    /\ pools[r].pc[w] = "qn_enter"
    /\ netsuite_semaphore > 0
    /\ netsuite_semaphore' = netsuite_semaphore - 1
    /\ pools' = [pools EXCEPT ![r].pc[w] = "qn_wait"]
    /\ UNCHANGED <<netsuite_request_lock, elapsed, tpc, caller, result, page_num,
                   since_dispatch, exits, faulty>>
    /\ UNCHANGED <<rate_limited, orchVars, cacheVars, hierVars, queryVars,
                   besidesPool>>

\* the post returns and the permit is released; on a rate-limit error
\* query_with_retry sleeps and calls query_netsuite again while attempts are
\* left, otherwise the thread is free for the next query
Pool_Response(r, w) ==
    /\ pools[r].pc[w] = "qn_wait"
    /\ netsuite_semaphore' = SemaphoreAfterExit(netsuite_semaphore, "ok")
    /\ \/ /\ pools' = [pools EXCEPT ![r].pc[w] = "idle"]
          /\ UNCHANGED rate_limited
       \/ /\ rate_limited < MaxFaultyQueries
          /\ rate_limited' = rate_limited + 1
          /\ pools' = IF pools[r].attempt[w] + 1 < MaxRetries
                      THEN [pools EXCEPT ![r].pc[w] = "qn_enter",
                                         ![r].attempt[w] = @ + 1]
                      ELSE [pools EXCEPT ![r].pc[w] = "idle"]
    /\ UNCHANGED <<netsuite_request_lock, elapsed, tpc, caller, result, page_num,
                   since_dispatch, exits, faulty>>
    /\ UNCHANGED <<orchVars, cacheVars, hierVars, queryVars, besidesPool>>

\* as_completed has yielded every future: the executor is shut down and the
\* request is answered
Pool_Respond(r) ==
    /\ pools[r].endpoint /= "none"
    /\ pools[r].pending = 0
    /\ \A w \in PoolThreads : pools[r].pc[w] = "idle"
    /\ pools' = [pools EXCEPT ![r] = NoPool]
    /\ UNCHANGED <<rate_limited, gateVars, orchVars, cacheVars, hierVars,
                   queryVars, besidesPool>>

\* ------------------------------------------------------------------------
\* Name lookup and the filters of the balance cache (SpecLookup):
\* load_lookup_cache, convert_name_to_id, should_use_consolidated and the
\* filters_hash of the handlers that read and write balance_cache
\* ------------------------------------------------------------------------
DEFAULT_ACCOUNTING_BOOK == 1

\* the rows of the Subsidiary query of load_lookup_cache
SubsidiaryNameRows ==
    << [id |-> "1", name |-> "Celigo Inc.", hierarchy |-> "Celigo Inc."],
       [id |-> "2", name |-> "Celigo Australia Pty Ltd",
        hierarchy |-> "Celigo Inc. : Celigo Australia Pty Ltd"] >>

\* str.lower() of the strings that occur
Lower(str) ==
    CASE str = "Celigo Inc." -> "celigo inc."
      [] str = "Celigo Australia Pty Ltd" -> "celigo australia pty ltd"
      [] str = "Celigo Inc. : Celigo Australia Pty Ltd" ->
                "celigo inc. : celigo australia pty ltd"
      [] str = "Acme GmbH" -> "acme gmbh"
      [] str = " (Consolidated)" -> " (consolidated)"
      [] OTHER -> str

\* str.rstrip('.,') of the strings that occur
RStripPunctuation(str) == IF str = "celigo inc." THEN "celigo inc" ELSE str

\* str.isdigit()
IsDigit(str) == str \in {"1", "2"}

\* int(str), Missing for a ValueError
ParseInt(str) ==
    CASE str = "1" -> 1
      [] str = "2" -> 2
      [] OTHER -> Missing

\* the `subsidiary` of a request: the text and, kept apart, a trailing
\* ' (Consolidated)'
RawSubsidiaries ==
    {[text |-> "", suffix |-> ""],
     [text |-> "2", suffix |-> ""],
     [text |-> "Celigo Inc.", suffix |-> ""],
     [text |-> "Celigo Inc.", suffix |-> " (Consolidated)"],
     [text |-> "Acme GmbH", suffix |-> ""]}

\* the `accountingbook` of a request: not sent, or sent as a string
RawBooks == {"absent", "2", "two"}

\* what the Subsidiary query of load_lookup_cache can give
WarmUpResults == {"rows", "error", "exception"}

\* the loop over sub_result, from row i on
RECURSIVE LoadSubsidiaries(_, _)
LoadSubsidiaries(subsidiaries, i) ==
    IF i > Len(SubsidiaryNameRows) THEN subsidiaries
    ELSE LET row == SubsidiaryNameRows[i]
             short_name == Lower(row.name)
             hierarchy_name == Lower(row.hierarchy)
             short_name_clean == RStripPunctuation(short_name)
             with_short == Put(subsidiaries, short_name, row.id)
             with_hierarchy == IF hierarchy_name /= short_name
                               THEN Put(with_short, hierarchy_name, row.id)
                               ELSE with_short
             with_clean == IF short_name_clean /= short_name
                           THEN Put(with_hierarchy, short_name_clean, row.id)
                           ELSE with_hierarchy
         IN LoadSubsidiaries(with_clean, i + 1)

\* lookup_cache['subsidiaries'] after load_lookup_cache: an error dict is not
\* a list and loads nothing, an exception leaves the fallback entry
LoadLookupCache(subsidiaries, sub_result) ==
    CASE sub_result = "rows" -> LoadSubsidiaries(subsidiaries, 1)
      [] sub_result = "error" -> subsidiaries
      [] sub_result = "exception" -> Put(EmptyDict, "parent company", "1")

\* `cache_loaded = True` at the end of load_lookup_cache
CacheLoadedAfter(subsidiaries) == TRUE

\* convert_name_to_id('subsidiary', value) over a loaded lookup cache
ConvertNameToId(subsidiaries, value) ==
    IF value.text = "" /\ value.suffix = "" THEN ""
    ELSE IF value.suffix = "" /\ IsDigit(value.text) THEN value.text
    ELSE LET value_lower ==
                 IF Lower(value.suffix) = " (consolidated)"
                 THEN <<Lower(value.text), "">>
                 ELSE <<Lower(value.text), Lower(value.suffix)>>
         IN IF value_lower[2] = "" /\ value_lower[1] \in DOMAIN subsidiaries
            THEN subsidiaries[value_lower[1]]
            ELSE ""

\* should_use_consolidated, with AUTO_CONSOLIDATE_ROOT = False
ShouldUseConsolidated(raw_subsidiary) ==
    Lower(raw_subsidiary.suffix) = " (consolidated)"

\* the accountingbook of a request
AccountingBookOf(raw) ==
    IF raw = "absent" THEN DEFAULT_ACCOUNTING_BOOK
    ELSE IF ParseInt(raw) = Missing THEN DEFAULT_ACCOUNTING_BOOK
    ELSE ParseInt(raw)

\* the key of account 4000 in period 1 under a subsidiary filter
FilterKey(subsidiary) == CacheKey("4000", 1, FiltersHash(subsidiary))

FilterKeys == {FilterKey(subsidiary) : subsidiary \in {"", "1", "2"}}

NoOrigin == [accountingbook |-> 0, wants_consolidated |-> FALSE]

Origin(accountingbook, wants_consolidated) ==
    [accountingbook |-> accountingbook, wants_consolidated |-> wants_consolidated]

NoLookup == [value |-> [text |-> "", suffix |-> ""], id |-> "", calls |-> 0]

NoBatchRequest ==
    [accountingbook |-> 0, wants_consolidated |-> FALSE, cache_key |-> FilterKey(""),
     from_cache |-> FALSE, origin |-> NoOrigin]

\* convert_name_to_id as a handler calls it: load_lookup_cache runs first
\* when cache_loaded is still False, and the call is recorded (`calls`
\* tells two calls with the same value apart)
LK_Convert(raw_subsidiary, subsidiaries) ==
    /\ lookup_cache' = subsidiaries
    /\ cache_loaded' =
          IF raw_subsidiary.text = "" /\ raw_subsidiary.suffix = ""
          THEN cache_loaded
          ELSE cache_loaded \/ CacheLoadedAfter(subsidiaries)
    /\ lookup_call' = [value |-> raw_subsidiary,
                       id |-> ConvertNameToId(subsidiaries, raw_subsidiary),
                       calls |-> 1 - lookup_call.calls]

\* the results the Subsidiary query of a handler's convert_name_to_id can
\* have: it is sent only while cache_loaded is False
ResultsNow == IF cache_loaded THEN {"rows"} ELSE WarmUpResults

\* lookup_cache['subsidiaries'] as a handler's convert_name_to_id finds it
LookedUp(raw_subsidiary, sub_result) ==
    IF cache_loaded \/ (raw_subsidiary.text = "" /\ raw_subsidiary.suffix = "")
    THEN lookup_cache
    ELSE LoadLookupCache(lookup_cache, sub_result)

\* the server starts: load_lookup_cache() before app.run
LK_Startup ==
    /\ ~cache_loaded
    /\ \E sub_result \in WarmUpResults :
        /\ lookup_cache' = LoadLookupCache(lookup_cache, sub_result)
        /\ cache_loaded' = CacheLoadedAfter(lookup_cache')
    /\ UNCHANGED <<lookup_call, computed_under, batch_request>>
    /\ UNCHANGED <<gateVars, orchVars, cacheVars, hierVars, queryVars, besidesLookup>>

\* batch_full_year_refresh: balance_cache = {} and one entry per balance
\* under filters_hash; a failed refresh answers 500 and writes nothing
LK_FullYearRefresh(raw_subsidiary, raw_book) ==
    /\ \E sub_result \in ResultsNow, outcome \in {"ok", "raised"} :
        LET subsidiaries == LookedUp(raw_subsidiary, sub_result)
            subsidiary == ConvertNameToId(subsidiaries, raw_subsidiary)
        IN /\ LK_Convert(raw_subsidiary, subsidiaries)
           /\ computed_under' =
                 IF outcome = "raised" THEN computed_under
                 ELSE [k \in FilterKeys |->
                          IF k = FilterKey(subsidiary)
                          THEN Origin(AccountingBookOf(raw_book),
                                      ShouldUseConsolidated(raw_subsidiary))
                          ELSE NoOrigin]
    /\ UNCHANGED batch_request
    /\ UNCHANGED <<gateVars, orchVars, cacheVars, hierVars, queryVars, besidesLookup>>

\* batch_periods_refresh: the entries under filters_hash are stored next to
\* the ones that are there
LK_PeriodsRefresh(raw_subsidiary, raw_book) ==
    /\ \E sub_result \in ResultsNow, outcome \in {"ok", "raised"} :
        LET subsidiaries == LookedUp(raw_subsidiary, sub_result)
            subsidiary == ConvertNameToId(subsidiaries, raw_subsidiary)
        IN /\ LK_Convert(raw_subsidiary, subsidiaries)
           /\ computed_under' =
                 IF outcome = "raised" THEN computed_under
                 ELSE [computed_under EXCEPT ![FilterKey(subsidiary)] =
                          Origin(AccountingBookOf(raw_book),
                                 ShouldUseConsolidated(raw_subsidiary))]
    /\ UNCHANGED batch_request
    /\ UNCHANGED <<gateVars, orchVars, cacheVars, hierVars, queryVars, besidesLookup>>

\* batch_balance: the request is answered from balance_cache when the cache
\* is younger than BALANCE_CACHE_TTL and holds the key built from
\* filters_hash; otherwise the balances are queried
LK_BatchBalance(raw_subsidiary, raw_book) ==
    /\ \E sub_result \in ResultsNow, fresh \in BOOLEAN :
        LET subsidiaries == LookedUp(raw_subsidiary, sub_result)
            subsidiary == ConvertNameToId(subsidiaries, raw_subsidiary)
            cache_key == FilterKey(subsidiary)
            all_in_cache == fresh /\ computed_under[cache_key] /= NoOrigin
        IN /\ LK_Convert(raw_subsidiary, subsidiaries)
           /\ batch_request' =
                 [accountingbook |-> AccountingBookOf(raw_book),
                  wants_consolidated |-> ShouldUseConsolidated(raw_subsidiary),
                  cache_key |-> cache_key,
                  from_cache |-> all_in_cache,
                  origin |-> IF all_in_cache THEN computed_under[cache_key]
                             ELSE NoOrigin]
    /\ UNCHANGED computed_under
    /\ UNCHANGED <<gateVars, orchVars, cacheVars, hierVars, queryVars, besidesLookup>>

\* ------------------------------------------------------------------------
\* The traversal loop of get_subsidiaries_in_hierarchy, pass by pass
\* (SpecBfs), over parent links of any shape
\* ------------------------------------------------------------------------
\* the Subsidiary tables whose parent links are arbitrary: a subsidiary can
\* be its own parent and the links can form a cycle
ParentLinkTables ==
    [SubIds -> [parent : SubIds \cup {NoParent},
                isinactive : BOOLEAN,
                iselimination : {FALSE}]]

NoTraversal ==
    [pc |-> "idle", target_id |-> NoParent, hierarchy_ids |-> <<>>,
     to_process |-> <<>>, passes |-> 0]

\* a loop that appends every child
NotListed_Always(child_id, hierarchy_ids) == TRUE

\* `if child_id not in hierarchy_ids:`
NotListed(child_id, hierarchy_ids) == child_id \notin SeqRange(hierarchy_ids)

\* `for child_id in children_map[current]:` from child i on -- the two lists
\* after the loop
RECURSIVE AppendChildren(_, _, _, _)
AppendChildren(hierarchy_ids, to_process, children, i) ==
    IF i > Len(children) THEN <<hierarchy_ids, to_process>>
    ELSE IF NotListed(children[i], hierarchy_ids)
         THEN AppendChildren(Append(hierarchy_ids, children[i]),
                             Append(to_process, children[i]), children, i + 1)
         ELSE AppendChildren(hierarchy_ids, to_process, children, i + 1)

\* the call: a cached target returns at once; a failed fetch returns the
\* target only; a root returns list(all_subs.keys()) and caches it; any
\* other target enters the loop with hierarchy_ids = to_process = [target_id]
BFS_Call(target_id) ==
    /\ bfs.pc \in {"idle", "returned"}
    /\ IF subsidiary_hierarchy_cache[target_id] /= NotCached
       THEN /\ bfs' = [NoTraversal EXCEPT
                          !.pc = "returned", !.target_id = target_id,
                          !.hierarchy_ids = subsidiary_hierarchy_cache[target_id]]
            /\ UNCHANGED subsidiary_hierarchy_cache
       ELSE \E outcome \in FetchOutcomes :
               IF outcome /= "rows"
               THEN /\ bfs' = [NoTraversal EXCEPT
                                  !.pc = "returned", !.target_id = target_id,
                                  !.hierarchy_ids = TargetOnly(target_id)]
                    /\ UNCHANGED subsidiary_hierarchy_cache
               ELSE IF /\ target_id \in SeqRange(ActiveRows(subsidiary_rows))
                       /\ subsidiary_rows[target_id].parent = NoParent
                    THEN /\ bfs' = [NoTraversal EXCEPT
                                       !.pc = "returned", !.target_id = target_id,
                                       !.hierarchy_ids = ActiveRows(subsidiary_rows)]
                         /\ subsidiary_hierarchy_cache' =
                               Memoized(subsidiary_hierarchy_cache, target_id,
                                        ActiveRows(subsidiary_rows))
                    ELSE /\ bfs' = [NoTraversal EXCEPT
                                       !.pc = "loop", !.target_id = target_id,
                                       !.hierarchy_ids = <<target_id>>,
                                       !.to_process = <<target_id>>]
                         /\ UNCHANGED subsidiary_hierarchy_cache
    /\ UNCHANGED <<subsidiary_rows, hierarchy_call, sub_filter>>
    /\ UNCHANGED <<gateVars, orchVars, cacheVars, queryVars, besidesBfs>>

\* one pass of `while to_process:` -- current = to_process.pop(0) and the
\* loop over its children
BFS_Pass ==
    /\ bfs.pc = "loop"
    /\ bfs.to_process /= <<>>
    /\ LET current == Head(bfs.to_process)
           lists == AppendChildren(bfs.hierarchy_ids, Tail(bfs.to_process),
                                   ChildrenMap(subsidiary_rows, current), 1)
       IN bfs' = [bfs EXCEPT !.hierarchy_ids = lists[1],
                             !.to_process = lists[2],
                             !.passes = @ + 1]
    /\ UNCHANGED hierVars
    /\ UNCHANGED <<gateVars, orchVars, cacheVars, queryVars, besidesBfs>>

\* to_process is empty: the list is cached and returned
BFS_Return ==
    /\ bfs.pc = "loop"
    /\ bfs.to_process = <<>>
    /\ bfs' = [bfs EXCEPT !.pc = "returned"]
    /\ subsidiary_hierarchy_cache' =
          Memoized(subsidiary_hierarchy_cache, bfs.target_id, bfs.hierarchy_ids)
    /\ UNCHANGED <<subsidiary_rows, hierarchy_call, sub_filter>>
    /\ UNCHANGED <<gateVars, orchVars, cacheVars, queryVars, besidesBfs>>

\* ------------------------------------------------------------------------
\* Initial state and the specifications
\* ------------------------------------------------------------------------
InitLedgerClient ==
    /\ netsuite_semaphore = NETSUITE_CONCURRENCY_LIMIT
    /\ netsuite_request_lock = NoThread
    /\ elapsed = MIN_REQUEST_INTERVAL
    /\ since_dispatch = NoTime
    /\ exits = {}
    /\ faulty = {}
    /\ tpc = [t \in Threads |-> "idle"]
    /\ caller = [t \in Threads |-> "none"]
    /\ result = [t \in Threads |-> NoResult]
    /\ page_num = [t \in Threads |-> 0]
    /\ posts = [t \in Threads |-> 0]

InitOrchestrator ==
    /\ endpoint = "none"
    /\ orch_pc = "none"
    /\ pending = <<>>
    /\ task = [t \in Threads |-> "none"]
    /\ attempt = [t \in Threads |-> 0]
    /\ waited = [t \in Threads |-> <<>>]
    /\ results = InitialResults("cta")
    /\ query_errors = {}
    /\ future_result = [n \in AllQueryNames |-> NoResult]
    /\ response = NoResponse

InitCache ==
    /\ balance_cache = EmptyCache
    /\ balance_cache_timestamp = NoTime
    /\ datetime_now = 0
    /\ written_at = [k \in AllKeys |-> NoTime]
    /\ hpc = [h \in Handlers |-> "idle"]
    /\ hreq = [h \in Handlers |-> NoRequest]
    /\ to_write = [h \in Handlers |-> <<>>]
    /\ month_index = [h \in Handlers |-> 0]
    /\ reply = NoReply
    /\ logged = {}
    /\ requests = 0

InitResolver ==
    /\ subsidiary_hierarchy_cache = [s \in SubIds |-> NotCached]
    /\ hierarchy_call = NoCall
    /\ sub_filter = <<>>

InitBuilder ==
    /\ qpc = "idle"
    /\ qreq = NoBalanceRequest
    /\ is_bs_account = FALSE
    /\ period_info = EmptyDict
    /\ pl_accounts = {}
    /\ bs_accounts = {}
    /\ all_balances = EmptyDict
    /\ sent = {}
    /\ qresp = NoAnswer

InitSupport ==
    /\ recon = NoReconstruction
    /\ pager = NoFetch
    /\ pools = [r \in OrchRequests |-> NoPool]
    /\ rate_limited = 0
    /\ cache_loaded = FALSE
    /\ lookup_cache = EmptyDict
    /\ lookup_call = NoLookup
    /\ computed_under = [k \in FilterKeys |-> NoOrigin]
    /\ batch_request = NoBatchRequest
    /\ bfs = NoTraversal

Init ==
    /\ InitLedgerClient
    /\ InitOrchestrator
    /\ InitCache
    /\ InitResolver
    /\ InitBuilder
    /\ InitSupport
    /\ subsidiary_rows = DefaultSubsidiaryTable

NextGate ==
    \/ \E t \in Threads : CallQueryNetsuite(t)
    \/ \E t \in Threads : CallRunPaginated(t)
    \/ \E t \in Threads : QN_AcquireSemaphore(t)
    \/ \E t \in Threads : QN_Pace(t)
    \/ \E t \in Threads : QN_Wake(t)
    \/ \E t \in Threads : QN_Response(t)
    \/ \E t \in Threads : PG_Response(t)
    \/ Tick

SpecGate == Init /\ [][NextGate]_vars

\* the threads that go through admission control: every request thread
\* calls query_netsuite
NextAdmit ==
    \/ \E t \in Threads : CallQueryNetsuite(t)
    \/ \E t \in Threads : QN_AcquireSemaphore(t)
    \/ \E t \in Threads : QN_Pace(t)
    \/ \E t \in Threads : QN_Wake(t)
    \/ \E t \in Threads : QN_Response(t)
    \/ Tick

\* every thread that can take a step takes one, the clock advances, and
\* every HTTP post returns or times out
SpecAdmitFair ==
    /\ Init
    /\ [][NextAdmit]_vars
    /\ WF_vars(Tick)
    /\ \A t \in Threads :
          /\ WF_vars(QN_AcquireSemaphore(t))
          /\ WF_vars(QN_Pace(t))
          /\ WF_vars(QN_Wake(t))
          /\ WF_vars(QN_Response(t))

NextOrch ==
    \/ Orch_Submit
    \/ \E t \in Threads : Worker_Take(t)
    \/ \E t \in Threads : QN_AcquireSemaphore(t)
    \/ \E t \in Threads : QN_Pace(t)
    \/ \E t \in Threads : QN_Wake(t)
    \/ \E t \in Threads : QN_Response(t)
    \/ \E t \in Threads : Retry_Wake(t)
    \/ Orch_Respond
    \/ Tick

SpecOrch == Init /\ [][NextOrch]_vars

Next ==
    \/ \E h \in Handlers : BB_Check(h)
    \/ \E h \in Handlers : BB_Serve(h)
    \/ \E h \in Handlers : BB_Recompute(h)
    \/ \E h \in Handlers : FY_Start(h)
    \/ \E h \in Handlers : FY_WritePL(h)
    \/ \E h \in Handlers : FY_BS(h)
    \/ \E h \in Handlers : FY_WriteBS(h)
    \/ \E h \in Handlers : FB_Start(h)
    \/ \E h \in Handlers : FB_Month(h)
    \/ \E h \in Handlers : PR_Start(h)
    \/ \E h \in Handlers : PR_WritePL(h)
    \/ \E h \in Handlers : PR_BS(h)
    \/ \E h \in Handlers : PR_WriteBS(h)
    \/ \E h \in Handlers : BP_Start(h)
    \/ \E h \in Handlers : BP_Write(h)
    \/ ClockTick

Spec == Init /\ [][Next]_vars

\* the resolver is called for any target, over any Subsidiary table
InitHier ==
    /\ InitLedgerClient
    /\ InitOrchestrator
    /\ InitCache
    /\ InitResolver
    /\ InitBuilder
    /\ InitSupport
    /\ subsidiary_rows \in SubsidiaryTables

NextHier == \E target_id \in SubIds : GetSubsidiariesInHierarchy(target_id)

SpecHier == InitHier /\ [][NextHier]_vars

NextQuery ==
    \/ GB_Classify
    \/ GB_Answer
    \/ BQ_Classify
    \/ BQ_Query
    \/ BQ_Answer
    \/ DM_ResolvePeriod

SpecQuery == Init /\ [][NextQuery]_vars

NextRecon ==
    \/ FY_Reconstruct
    \/ PR_Reconstruct

SpecRecon == Init /\ [][NextRecon]_vars

NextPage ==
    \/ QP_Call
    \/ QP_Page
    \/ RP_Call
    \/ RP_Page

SpecPage == Init /\ [][NextPage]_vars

NextPools ==
    \/ \E r \in OrchRequests : Pool_Submit(r)
    \/ \E r \in OrchRequests, w \in PoolThreads : Pool_Take(r, w)
    \/ \E r \in OrchRequests, w \in PoolThreads : Pool_AcquireSemaphore(r, w)
    \/ \E r \in OrchRequests, w \in PoolThreads : Pool_Response(r, w)
    \/ \E r \in OrchRequests : Pool_Respond(r)

SpecPools == Init /\ [][NextPools]_vars

\* a request that names the subsidiary `Celigo Inc.`, which the ledger has
NamedRequest ==
    \E accountingbook \in RawBooks :
        LK_BatchBalance([text |-> "Celigo Inc.", suffix |-> ""], accountingbook)

NextLookup ==
    \/ LK_Startup
    \/ \E raw \in RawSubsidiaries, book \in RawBooks : LK_FullYearRefresh(raw, book)
    \/ \E raw \in RawSubsidiaries, book \in RawBooks : LK_PeriodsRefresh(raw, book)
    \/ \E raw \in RawSubsidiaries, book \in RawBooks : LK_BatchBalance(raw, book)

SpecLookup == Init /\ [][NextLookup]_vars

\* the resolver is called over any table of parent links
InitBfs ==
    /\ InitLedgerClient
    /\ InitOrchestrator
    /\ InitCache
    /\ InitResolver
    /\ InitBuilder
    /\ InitSupport
    /\ subsidiary_rows \in ParentLinkTables

NextBfs ==
    \/ \E target_id \in SubIds : BFS_Call(target_id)
    \/ BFS_Pass
    \/ BFS_Return

SpecBfs == InitBfs /\ [][NextBfs]_vars

\* the server goes on answering the requests that arrive, and requests that
\* name the subsidiary keep arriving
SpecLookupFair == SpecLookup /\ WF_vars(NamedRequest)

\* ------------------------------------------------------------------------
\* Balance cache (Spec)
\* ------------------------------------------------------------------------
\* handler h's batch_balance request has just been checked against the cache
CheckStep(h) == hpc[h] = "idle" /\ hpc'[h] \in {"bb_hit", "bb_recompute"}

\* handler h answers its batch_balance request from the cache
ServeStep(h) == hpc[h] = "bb_hit" /\ hpc'[h] = "idle"

\* handler h ends a request that writes the cache
BatchWriteEnds(h) ==
    /\ hpc[h] \in {"fy_bs", "fy_bs_write", "fb_month", "pr_bs", "pr_bs_write",
                   "bp_write"}
    /\ hpc'[h] = "idle"

\* C1: a batch_balance request is declared a cache hit only if every
\* requested (account, period) key is in balance_cache under the request's
\* own filters_hash when the check runs; with any key missing the request
\* takes the recompute path, whose answer is not marked from_cache and is
\* computed from the ledger.
C1_HitOnlyIfAllKeysPresent ==
    [][\A h \in Handlers :
          /\ CheckStep(h) =>
                (hpc'[h] = "bb_hit" =>
                    \A k \in RequestKeys(hreq'[h]) : balance_cache[k] /= Missing)
          /\ (hpc[h] = "bb_recompute" /\ hpc'[h] = "idle") =>
                /\ ~reply'.from_cache
                /\ \A k \in RequestKeys(hreq[h]) :
                      reply'.balances[k]
                          \in {0, LedgerBalance(k[1], k[2], hreq[h].subsidiary)}]_vars

\* one request was answered from the cache with every key stored, while
\* another, for which only some of the keys are cached, is being recomputed
C1_Witness ==
    \E g \in Handlers :
        /\ reply.from_cache
        /\ Cardinality(DOMAIN reply.balances) > 1
        /\ \A k \in DOMAIN reply.balances : reply.balances[k] = balance_cache[k]
        /\ hpc[g] = "bb_recompute"
        /\ \E k \in RequestKeys(hreq[g]) : balance_cache[k] /= Missing
        /\ \E k \in RequestKeys(hreq[g]) : balance_cache[k] = Missing

\* C2: every value of an answer served from the cache is stored in
\* balance_cache under its key when it is read; none is the default of
\* balance_cache.get(cache_key, 0) for an absent entry.
C2_ServedValuesAreStored ==
    [][\A h \in Handlers :
          ServeStep(h) =>
              \A k \in RequestKeys(hreq[h]) : balance_cache[k] /= Missing]_vars

\* C3: no value served as a cache hit was written into the cache more than
\* BALANCE_CACHE_TTL seconds before the request arrived.
C3_ServedValuesWithinTTL ==
    [][\A h \in Handlers :
          ServeStep(h) =>
              \A k \in RequestKeys(hreq[h]) :
                  balance_cache[k] /= Missing =>
                      hreq[h].at - written_at[k] <= BALANCE_CACHE_TTL]_vars

\* C4: when a request that writes the cache ends (answered or aborted),
\* every account has either all of the batch's periods in the cache or none.
C4_AllPeriodsOrNone ==
    [][\A h \in Handlers :
          BatchWriteEnds(h) =>
              \A a \in Accounts :
                  LET keys == {CacheKey(a, p, FiltersHash(hreq[h].subsidiary)) :
                                  p \in hreq[h].periods}
                  IN \/ \A k \in keys : balance_cache'[k] /= Missing
                     \/ \A k \in keys : balance_cache'[k] = Missing]_vars

\* ------------------------------------------------------------------------
\* Admission control (SpecGate)
\* ------------------------------------------------------------------------
\* threads between entering and leaving `with netsuite_semaphore:`
InsideQueryNetsuite == {t \in Threads : tpc[t] \in {"qn_lock", "qn_sleep", "qn_wait"}}

\* C5: every outbound call to the ledger holds a semaphore permit, so no
\* more than NETSUITE_CONCURRENCY_LIMIT requests.post calls are in flight
\* at any moment.
C5_InFlightWithinPermits == InFlight <= NETSUITE_CONCURRENCY_LIMIT

\* C6: a permit or the pacing lock is held only by a thread that is inside
\* query_netsuite; whatever the exit path of each call (200, non-200,
\* timeout or another exception), once no call is inside, all
\* NETSUITE_CONCURRENCY_LIMIT permits and the lock are free.
C6_GatesReleasedOnEveryExit ==
    /\ netsuite_semaphore + Cardinality(InsideQueryNetsuite) = NETSUITE_CONCURRENCY_LIMIT
    /\ netsuite_request_lock /= NoThread => tpc[netsuite_request_lock] = "qn_sleep"
    /\ InsideQueryNetsuite = {} =>
          /\ netsuite_semaphore = NETSUITE_CONCURRENCY_LIMIT
          /\ netsuite_request_lock = NoThread

\* every thread has returned, query_netsuite has left through each of its
\* exit paths, and the gates are free
C6_Witness ==
    /\ \A t \in Threads : tpc[t] = "done"
    /\ exits = HttpOutcomes
    /\ netsuite_semaphore = NETSUITE_CONCURRENCY_LIMIT
    /\ netsuite_request_lock = NoThread

\* a step in which some thread sends a requests.post
DispatchStep ==
    \E t \in Threads :
        /\ tpc'[t] \in {"qn_wait", "pg_wait"}
        /\ tpc[t] \notin {"qn_wait", "pg_wait"} \/ page_num'[t] /= page_num[t]

\* C7: any two consecutive ledger dispatches are at least
\* MIN_REQUEST_INTERVAL apart.
C7_MinIntervalBetweenDispatches ==
    [][DispatchStep /\ since_dispatch /= NoTime
         => since_dispatch >= MIN_REQUEST_INTERVAL]_vars

\* ------------------------------------------------------------------------
\* Retry policy and failure isolation (SpecOrch)
\* ------------------------------------------------------------------------
\* C8: on rate-limit signals a component query is sent at most MaxRetries
\* (3) times, and each backoff wait is strictly longer than the one before
\* it: 2 s, 4 s, 6 s.
C8_AtMostThreeSendsIncreasingBackoff ==
    \A t \in Threads :
        /\ posts[t] <= MaxRetries
        /\ Len(waited[t]) <= posts[t]
        /\ \A i \in 1..Len(waited[t]) :
              /\ waited[t][i] = 2 * i
              /\ i > 1 => waited[t][i] > waited[t][i - 1]

\* a query was rate-limited on each of its three sends
C8_Witness ==
    \E t \in Threads :
        /\ tpc[t] = "rt_sleep"
        /\ posts[t] = MaxRetries
        /\ waited[t] = <<2, 4, 6>>

\* C9: when the last attempt of a component query is still answered with a
\* rate-limit response, the answer of the request carries an error for it.
C9_FinalRateLimitSurfacesAsError ==
    orch_pc = "responded" =>
        \A name \in NameSet(endpoint) :
            IsRateLimitSignal(future_result[name]) =>
                \/ response.status /= 200
                \/ "error" \in DOMAIN response
                \/ "errors" \in DOMAIN response

\* the component query failed with an error that is not a rate-limit signal
FailedOtherwise(r) == r.kind = "error" /\ ~IsRateLimitSignal(r)

\* C10: every component query whose future is done has an entry in
\* results; one that failed with a non-rate-limit error is in query_errors
\* with the value 0, every one that the ledger answered with a value has
\* exactly that value whatever happened to its siblings, and the request is
\* answered only when every query has its entry.
C10_FailureIsolated ==
    \A name \in NameSet(endpoint) :
        /\ orch_pc = "responded" => future_result[name] /= NoResult
        /\ future_result[name] /= NoResult =>
              /\ results[name] /= Missing
              /\ FailedOtherwise(future_result[name]) =>
                    /\ results[name] = 0
                    /\ \E e \in query_errors : e[1] = name
              /\ (future_result[name].kind = "rows"
                      /\ future_result[name].rows = "value") =>
                    results[name] = LedgerValue(name)

\* calculate_cta answered although prior_pl failed with a non-rate-limit
\* error: it is recorded with 0 and every sibling kept the ledger's value
C10_Witness ==
    /\ orch_pc = "responded"
    /\ endpoint = "cta"
    /\ FailedOtherwise(future_result["prior_pl"])
    /\ results["prior_pl"] = 0
    /\ \A name \in NameSet("cta") \ {"prior_pl"} :
          results[name] = LedgerValue(name)

\* the component query did not deliver a value: an error result, or a row
\* whose value float() rejects
ComponentFailed(r) ==
    \/ r.kind = "error"
    \/ r.kind = "rows" /\ r.rows = "malformed"

\* C11: when a component query of calculate_cta or
\* calculate_retained_earnings fails, the request is answered with status 200
\* and a value computed with 0 for that component, and the answer has an
\* error set that lists the failed component.
C11_ComponentFailureListedInResponse ==
    orch_pc = "responded" =>
        \A name \in NameSet(endpoint) :
            ComponentFailed(future_result[name]) =>
                /\ response.status = 200
                /\ Get(results, name) = 0
                /\ "errors" \in DOMAIN response
                /\ \E e \in response.errors : e[1] = name

\* C14: the value of every calculate_cta answer is (Total Assets - Total
\* Liabilities) - Posted Equity - Retained Earnings - Net Income over the
\* components of the same answer, Retained Earnings being prior-years P&L
\* plus posted Retained-Earnings amounts, so that Total Assets = Total
\* Liabilities + Posted Equity + Retained Earnings + Net Income + CTA.
C14_CtaIsPlugOfReportedComponents ==
    (orch_pc = "responded" /\ endpoint = "cta") =>
        LET c == response.components
        IN /\ response.value =
                  (c.total_assets - c.total_liabilities) - c.posted_equity
                      - c.retained_earnings - c.net_income
           /\ c.retained_earnings =
                  Get(results, "prior_pl") + Get(results, "posted_re")
           /\ c.total_equity = c.total_assets - c.total_liabilities
           /\ c.total_assets =
                  c.total_liabilities + c.posted_equity + c.retained_earnings
                      + c.net_income + response.value

\* calculate_cta answered with every component at the ledger's value: the
\* plug is 100 - 40 - 30 - (10 + 5) - 7
C14_Witness ==
    /\ orch_pc = "responded"
    /\ endpoint = "cta"
    /\ \A name \in NameSet("cta") : results[name] = LedgerValue(name)
    /\ response.components.net_income = 7
    /\ response.components.retained_earnings = 15
    /\ response.value = 8

\* ------------------------------------------------------------------------
\* Partial results of the batch endpoints (Spec)
\* ------------------------------------------------------------------------
\* C12: a request answered with status 200 although some of its ledger
\* queries failed (P&L succeeded and Balance Sheet failed, say) notes the
\* failure in its answer; no portion is left out or zero-filled without a
\* signal to the caller.
C12_PartialFailureNotedInAnswer ==
    (reply.status = 200 /\ logged /= {}) =>
        \/ "error" \in DOMAIN reply
        \/ "errors" \in DOMAIN reply
        \/ "warnings" \in DOMAIN reply

\* ------------------------------------------------------------------------
\* Hierarchy Resolver (SpecHier)
\* ------------------------------------------------------------------------
\* a subsidiary without a parent, and one that is nobody's parent
IsRoot(table, s) == table[s].parent = NoParent

IsLeaf(table, s) == \A c \in SubIds : table[c].parent /= s

C16_FetchFailureFallsBackToTarget ==
    hierarchy_call.fetch \in {"error", "raised"} =>
        /\ hierarchy_call.hierarchy_ids = <<hierarchy_call.target_id>>
        /\ sub_filter = <<hierarchy_call.target_id>>
        /\ subsidiary_hierarchy_cache[hierarchy_call.target_id] = NotCached

\* the fetch failed for root 1, which has active subsidiaries below it, and
\* the caller goes on with subsidiary 1 alone
C16_Witness ==
    /\ hierarchy_call.fetch = "error"
    /\ hierarchy_call.target_id = 1
    /\ \A s \in SubIds : ~subsidiary_rows[s].isinactive
    /\ sub_filter = <<1>>

\* ------------------------------------------------------------------------
\* Balance Query Builder (SpecQuery)
\* ------------------------------------------------------------------------
\* the period names a request carries
RequestedPeriods(req) ==
    (req.periods \cup {req.from_period, req.to_period}) \ {""}

\* C13: a request that names a period the AccountingPeriod table does not
\* have is answered with an error status: no answer with status 200 is
\* given for it.
C13_UnresolvedPeriodIsRejected ==
    (qpc = "answered" /\ RequestedPeriods(qreq) \ KnownPeriodNames /= {}) =>
        qresp.status /= 200

\* C17: a balance returned by get_balance for a Balance Sheet account, a
\* known end period and a known start period not after it is the sum the query gives when its only date condition
\* is `trandate <= end of the end period`, whatever start period the caller
\* sent, so that requests differing only in the start period get the same
\* balance.
C17_BalanceSheetBalanceIgnoresStartPeriod ==
    (/\ qpc = "answered"
     /\ qreq.endpoint = "balance"
     /\ qresp.status = 200
     /\ is_balance_sheet(Accttype(qreq.account))
     /\ qreq.to_period \in KnownPeriodNames
     /\ qreq.from_period \in KnownPeriodNames
     /\ get_period_dates_from_name(qreq.from_period).startdate
            <= get_period_dates_from_name(qreq.to_period).enddate) =>
        \A s \in sent :
            qresp.value =
                TotalBalance([s.query EXCEPT !.dates =
                    TrandateUpTo(get_period_dates_from_name(qreq.to_period).enddate)])

\* whether a query answered with rows read lines of Balance Sheet accounts
ReadsBalanceSheet(s) ==
    /\ s.result = "rows"
    /\ \E i \in Matching(s.query) :
           is_balance_sheet(Accttype(PostedLines[i].account))

\* C18: every query that reads Balance Sheet amounts for a report period of
\* the AccountingPeriod table passes the id of that period to
\* BUILTIN.CONSOLIDATE, never t.postingperiod.
C18_BalanceSheetConsolidatedAtReportPeriod ==
    \A s \in sent :
        (ReadsBalanceSheet(s) /\ s.period \in KnownPeriodNames) =>
            s.query.consolidate =
                ByPeriodId(get_period_dates_from_name(s.period).id)

\* the multiplier of the sign convention: -1 for Income, Other Income,
\* liabilities, equity and Retained Earnings, +1 for every other type
SignMultiplier(accttype) ==
    IF accttype \in INCOME_TYPES \cup SIGN_FLIP_TYPES THEN -1 ELSE 1

\* C19: every line a query answered with rows reads enters the returned
\* balance multiplied by the multiplier of the sign convention for its
\* account's type, and the balance get_balance returns is the multiplier of
\* the account's type times the unsigned sum.
C19_SignMultiplierAppliedOnce ==
    /\ \A s \in sent :
          s.result = "rows" =>
              \A i \in Matching(s.query) :
                  SignFactor(s.query.sign, Accttype(PostedLines[i].account))
                      = SignMultiplier(Accttype(PostedLines[i].account))
    /\ (qpc = "answered" /\ qreq.endpoint = "balance" /\ qresp.status = 200) =>
          \A s \in sent :
              qresp.value = SignMultiplier(Accttype(qreq.account))
                                * TotalBalance([s.query EXCEPT !.sign = "none"])

\* the balance the answer carries for an account and a period, 0 without
\* one
BalanceIn(balances, account, period) ==
    IF account \in DOMAIN balances /\ period \in DOMAIN balances[account]
    THEN balances[account][period]
    ELSE 0

RECURSIVE SumOfAccounts(_, _, _)
\* the sum of the balances of the accounts in `accounts` for a period
SumOfAccounts(balances, accounts, period) ==
    IF accounts = {}
    THEN 0
    ELSE LET a == CHOOSE x \in accounts : TRUE
         IN BalanceIn(balances, a, period)
                + SumOfAccounts(balances, accounts \ {a}, period)

\* C20: in an answer of batch_balance, the value under a wildcard key for a
\* requested period is the sum of the balances of the accounts of the
\* Account table whose number matches the pattern, each taken once.
C20_WildcardIsSumOfMatchingAccounts ==
    (qpc = "answered" /\ qreq.endpoint = "batch_balance"
        /\ qresp.status = 200) =>
        \A i \in 1..Len(qreq.accounts) :
            HasWildcard(qreq.accounts[i]) =>
                /\ qreq.accounts[i] \in DOMAIN qresp.balances
                /\ \A p \in qreq.periods :
                      /\ p \in DOMAIN qresp.balances[qreq.accounts[i]]
                      /\ qresp.balances[qreq.accounts[i]][p] =
                            SumOfAccounts(qresp.balances,
                                          {a \in AccountNumbers :
                                              AccountFilter({qreq.accounts[i]}, a)},
                                          p)

\* ------------------------------------------------------------------------
\* Activity reconstruction (SpecRecon)
\* ------------------------------------------------------------------------
\* the two amounts differ by less than 0.01
SameToTheCent(x, y) == x - y < Cent /\ y - x < Cent

\* C21: every cumulative balance the reconstruction produces for a period
\* is, to the cent, the ledger's balance at the end of that period: the
\* balance before the first period of the range plus the activity of every
\* month from there through the period.
C21_CumulativeIsPriorPlusActivity ==
    \A m \in DOMAIN recon.balances :
        SameToTheCent(
            recon.balances[m],
            LedgerCumulative(recon.opening, recon.activity, Earliest(recon.periods) - 1)
                + SumActivity(recon.activity, Earliest(recon.periods), m))

\* ------------------------------------------------------------------------
\* Balance cache (Spec), continued
\* ------------------------------------------------------------------------
\* C22: when batch_balance answers with balances it computed from the
\* ledger, every one of them is in balance_cache under its key as the answer
\* is returned.
C22_ComputedResultIsCached ==
    [][(/\ reply' /= reply
        /\ reply'.status = 200
        /\ ~reply'.from_cache
        /\ DOMAIN reply'.balances /= {}) =>
            \A k \in DOMAIN reply'.balances :
                balance_cache'[k] = reply'.balances[k]]_vars

\* C24: no step removes an entry from balance_cache: a key that is cached
\* stays cached.
C24_CacheEntriesAreNeverRemoved ==
    [][\A k \in AllKeys :
          balance_cache[k] /= Missing => balance_cache'[k] /= Missing]_vars

\* ------------------------------------------------------------------------
\* Hierarchy Resolver (SpecHier), continued
\* ------------------------------------------------------------------------
\* C23: a hierarchy computed from the fetched rows is kept in
\* subsidiary_hierarchy_cache, an entry of subsidiary_hierarchy_cache never
\* changes, and a call for a target that has an entry is answered with that
\* entry without fetching the Subsidiary table.
C23_ResolvedHierarchyIsMemoized ==
    [][/\ hierarchy_call'.fetch = "rows" =>
             subsidiary_hierarchy_cache'[hierarchy_call'.target_id]
                 = hierarchy_call'.hierarchy_ids
       /\ \A t \in SubIds :
             subsidiary_hierarchy_cache[t] /= NotCached =>
                 /\ subsidiary_hierarchy_cache'[t] = subsidiary_hierarchy_cache[t]
                 /\ hierarchy_call'.target_id = t =>
                       /\ hierarchy_call'.fetch = "cached"
                       /\ hierarchy_call'.hierarchy_ids
                              = subsidiary_hierarchy_cache[t]]_vars

\* a second call for subsidiary 2, which has subsidiary 3 below it, was
\* answered from subsidiary_hierarchy_cache
C23_Witness ==
    /\ hierarchy_call.fetch = "cached"
    /\ hierarchy_call.target_id = 2
    /\ subsidiary_rows[3].parent = 2
    /\ ~subsidiary_rows[3].isinactive
    /\ hierarchy_call.hierarchy_ids = <<2, 3>>
    /\ subsidiary_hierarchy_cache[2] = <<2, 3>>

\* ------------------------------------------------------------------------
\* Multi-page fetch (SpecPage)
\* ------------------------------------------------------------------------
\* the most pages one call can ask for: max_pages of run_paginated_suiteql,
\* and for query_netsuite_paginated the pages it takes to move the offset
\* past the safety limit
PageCeiling(p) ==
    IF p.fn = "run_paginated_suiteql" THEN p.max_pages
    ELSE OffsetSafetyLimit \div p.page_size + 1

\* C25: a multi-page fetch asks for another page only after full pages, it
\* returns rows only after a page shorter than the page size or at its
\* page ceiling, and it never sends more page requests than that ceiling.
C25_FetchStopsAtShortPageOrCeiling ==
    pager.fn /= "none" =>
        /\ pager.posts <= PageCeiling(pager)
        /\ pager.pc = "waiting" =>
              pager.all_rows = (pager.posts - 1) * pager.page_size
        /\ (pager.pc = "returned" /\ pager.outcome = "rows") =>
              \/ pager.rows < pager.page_size
              \/ pager.posts = PageCeiling(pager)

\* run_paginated_suiteql returned after max_pages = 20 full pages
C25_Witness ==
    /\ pager.fn = "run_paginated_suiteql"
    /\ pager.pc = "returned"
    /\ pager.outcome = "rows"
    /\ pager.max_pages = 20
    /\ pager.posts = 20
    /\ pager.rows = pager.page_size
    /\ pager.all_rows = 20 * pager.page_size

\* ------------------------------------------------------------------------
\* Concurrent orchestrated requests (SpecPools)
\* ------------------------------------------------------------------------
\* the pool threads that hold a permit of netsuite_semaphore
OrchestratedInFlight ==
    Cardinality({rw \in OrchRequests \X PoolThreads :
                    pools[rw[1]].pc[rw[2]] = "qn_wait"})

\* C26: the ledger calls in flight for orchestrated aggregations are fewer
\* than NETSUITE_CONCURRENCY_LIMIT, so that a permit is left for other work.
C26_OrchestratedCallsBelowCap ==
    OrchestratedInFlight < NETSUITE_CONCURRENCY_LIMIT

\* ------------------------------------------------------------------------
\* Name lookup and the filters of the balance cache (SpecLookup)
\* ------------------------------------------------------------------------
\* C27: a batch balance request answered from the cache gets an entry that
\* was computed under the request's accounting book and consolidation mode.
C27_CacheHitUnderSameBookAndMode ==
    batch_request.from_cache =>
        batch_request.origin = Origin(batch_request.accountingbook,
                                      batch_request.wants_consolidated)

\* the warm-up left no name of subsidiary `Celigo Inc.` in the lookup cache
WarmUpFailed == cache_loaded /\ "celigo inc." \notin DOMAIN lookup_cache

\* a request that named `Celigo Inc.` had it resolved to its id
Resolved == lookup_call.value.text = "Celigo Inc." /\ lookup_call.id = "1"

\* C28: after a failed warm-up of the lookup cache, a later request that
\* names a subsidiary of the ledger is eventually resolved to its id.
C28_WarmUpFailureIsNotPermanent == WarmUpFailed ~> Resolved

\* ------------------------------------------------------------------------
\* The traversal loop of the Hierarchy Resolver (SpecBfs)
\* ------------------------------------------------------------------------
\* the parent links of the table lead from s back to s
RECURSIVE OnCycle(_, _, _)
OnCycle(s, at, steps) ==
    LET parent == subsidiary_rows[at].parent
    IN IF parent = NoParent \/ steps = 0 THEN FALSE
       ELSE parent = s \/ OnCycle(s, parent, steps - 1)

\* C29: over any table of parent links the traversal loop makes at most one
\* pass per subsidiary, no id waits in to_process twice, and hierarchy_ids
\* never holds an id twice.
C29_TraversalTerminatesWithoutDuplicates ==
    /\ bfs.passes <= NumSubsidiaries
    /\ Len(bfs.to_process) <= NumSubsidiaries
    /\ Cardinality(SeqRange(bfs.hierarchy_ids)) = Len(bfs.hierarchy_ids)
    /\ Cardinality(SeqRange(bfs.to_process)) = Len(bfs.to_process)

\* the traversal from subsidiary 2 has returned over a table in which 2 and
\* 3 are each other's parent
C29_Witness ==
    /\ bfs.pc = "returned"
    /\ bfs.target_id = 2
    /\ bfs.passes = 2
    /\ OnCycle(2, 2, NumSubsidiaries)
    /\ subsidiary_rows[2].parent = 3
    /\ bfs.hierarchy_ids = <<2, 3>>

\* ------------------------------------------------------------------------
\* Ledger Client (SpecAdmitFair)
\* ------------------------------------------------------------------------
\* C30: a thread that waits for a permit of netsuite_semaphore gets one, and
\* a thread that waits for netsuite_request_lock gets it.
\* (A thread leaves "qn_enter" only by taking a permit and "qn_lock" only by
\* taking the lock, so it is admitted when it is no longer there.)
C30_WaitingThreadsAreAdmitted ==
    \A t \in Threads :
        /\ []<>(tpc[t] /= "qn_enter")
        /\ []<>(tpc[t] /= "qn_lock")

\* the last thread waits for a permit while four others hold the permits,
\* one of them asleep inside the lock and the others waiting for the lock
C30_Witness ==
    /\ tpc[NumThreads] = "qn_enter"
    /\ netsuite_semaphore = 0
    /\ \E t \in Threads : tpc[t] = "qn_sleep" /\ netsuite_request_lock = t
    /\ \E t \in Threads : tpc[t] = "qn_lock"

====
